---- MODULE Spec2Model ----
(***************************************************************************)
(* Flight Management System (oa783/flight-manager): the data-modification *)
(* layer (queries.py, queries_add.py) over the SQLite schema and seed of  *)
(* database.py, with the validators of models.py.                        *)
(*                                                                         *)
(* Text values are sequences of one-character strings, so that Python's   *)
(* str methods, string comparison, strptime and SQLite's datetime() are   *)
(* computed on the characters, as the code computes them.  The alphabet   *)
(* is ASCII letters, digits, space and the punctuation - : /              *)
(***************************************************************************)
EXTENDS Integers, Sequences, FiniteSets, TLC

VARIABLES db, pre, last

vars == <<db, pre, last>>

----------------------------------------------------------------------------
(* Characters and Python str methods                                       *)

LowerCase == <<"a","b","c","d","e","f","g","h","i","j","k","l","m",
               "n","o","p","q","r","s","t","u","v","w","x","y","z">>

UpperCase == <<"A","B","C","D","E","F","G","H","I","J","K","L","M",
               "N","O","P","Q","R","S","T","U","V","W","X","Y","Z">>

Digits == <<"0","1","2","3","4","5","6","7","8","9">>

Range(s) == { s[i] : i \in DOMAIN s }

\* index of character c in the sequence t, 0 when absent
Pos(t, c) == IF c \in Range(t) THEN CHOOSE i \in DOMAIN t : t[i] = c ELSE 0

IsLower(c) == c \in Range(LowerCase)
IsUpper(c) == c \in Range(UpperCase)
IsLetter(c) == IsLower(c) \/ IsUpper(c)
IsDigit(c) == c \in Range(Digits)
IsSpace(c) == c = " "

\* code point of a character (ASCII)
ord(c) ==
  CASE IsDigit(c) -> 47 + Pos(Digits, c)
    [] IsUpper(c) -> 64 + Pos(UpperCase, c)
    [] IsLower(c) -> 96 + Pos(LowerCase, c)
    [] c = " " -> 32
    [] c = "-" -> 45
    [] c = "/" -> 47
    [] c = ":" -> 58
    [] OTHER -> 0

upperChar(c) == IF IsLower(c) THEN UpperCase[Pos(LowerCase, c)] ELSE c
lowerChar(c) == IF IsUpper(c) THEN LowerCase[Pos(UpperCase, c)] ELSE c

\* str.upper(), str.lower()
upper(s) == [i \in 1..Len(s) |-> upperChar(s[i])]
lower(s) == [i \in 1..Len(s) |-> lowerChar(s[i])]

\* str.capitalize(): first character upper-cased, the rest lower-cased
capitalize(s) == [i \in 1..Len(s) |-> IF i = 1 THEN upperChar(s[i]) ELSE lowerChar(s[i])]

\* str.title(): a letter after a non-letter is upper-cased, any other lower-cased
title(s) ==
  [i \in 1..Len(s) |->
     IF i = 1 \/ ~IsLetter(s[IF i = 1 THEN 1 ELSE i - 1])
       THEN upperChar(s[i]) ELSE lowerChar(s[i])]

\* str.strip(): leading and trailing whitespace removed
strip(s) ==
  LET keep == { i \in DOMAIN s : ~IsSpace(s[i]) }
  IN  IF keep = {} THEN <<>>
      ELSE LET lo == CHOOSE i \in keep : \A j \in keep : i <= j
               hi == CHOOSE i \in keep : \A j \in keep : i >= j
           IN  SubSeq(s, lo, hi)

\* str.isalpha(): non-empty and every character a letter
isalpha(s) == Len(s) > 0 /\ \A i \in DOMAIN s : IsLetter(s[i])

\* Python's str < str: lexicographic on code points, a proper prefix is smaller
StrLess(a, b) ==
  \E i \in 1..(Len(b)) :
     /\ \A j \in 1..(i - 1) : j <= Len(a) /\ a[j] = b[j]
     /\ \/ i = Len(a) + 1
        \/ i <= Len(a) /\ ord(a[i]) < ord(b[i])

\* Python's str >= str
StrGE(a, b) == ~StrLess(a, b)

----------------------------------------------------------------------------
(* datetime.strptime and SQLite's datetime()                               *)

DigitVal(c) == Pos(Digits, c) - 1

\* number of consecutive digits of s starting at position i
DigitRun(s, i) ==
  CHOOSE k \in 0..(Len(s) + 1) :
     /\ \A j \in i..(i + k - 1) : j <= Len(s) /\ IsDigit(s[j])
     /\ (i + k > Len(s) \/ ~IsDigit(s[i + k]))

\* number of consecutive whitespace characters of s starting at position i
SpaceRun(s, i) ==
  CHOOSE k \in 0..(Len(s) + 1) :
     /\ \A j \in i..(i + k - 1) : j <= Len(s) /\ IsSpace(s[j])
     /\ (i + k > Len(s) \/ ~IsSpace(s[i + k]))

\* value of the k digits of s starting at position i
RECURSIVE Num(_, _, _)
Num(s, i, k) == IF k = 0 THEN 0 ELSE 10 * Num(s, i, k - 1) + DigitVal(s[i + k - 1])

IsLeap(y) == (y % 4 = 0 /\ y % 100 # 0) \/ y % 400 = 0

DaysInMonth(y, m) ==
  IF m = 2 THEN (IF IsLeap(y) THEN 29 ELSE 28)
  ELSE IF m \in {4, 6, 9, 11} THEN 30 ELSE 31

NoParse == [ok |-> FALSE, next |-> 0, v |-> <<0, 0, 0>>]

\* the element of a one-element set; Only({ e : x \in {v} }) is e with v computed once
Only(S) == CHOOSE x \in S : TRUE

\* the day field of '%Y-%m-%d' at position p: 3[01]|[12]\d|0[1-9]|[1-9]| [1-9]
ParseDay(s, y, m, p) ==
  LET pad == Len(s) >= p + 1 /\ s[p] = " " /\ IsDigit(s[p + 1]) /\ s[p + 1] # "0"
      q   == IF pad THEN p + 1 ELSE p
  IN  Only({ IF /\ kd \in {1, 2} /\ Num(s, q, kd) \in 1..31 /\ y >= 1
                /\ Num(s, q, kd) <= DaysInMonth(y, m)
             THEN [ok |-> TRUE, next |-> q + kd, v |-> <<y, m, Num(s, q, kd)>>]
             ELSE NoParse :
             kd \in {IF pad THEN 1 ELSE DigitRun(s, q)} })

\* The '%Y-%m-%d' prefix of a strptime format: \d\d\d\d - (1[0-2]|0[1-9]|[1-9]) -
\* then the day; next is the position after the day.
ParseYmd(s) ==
  IF ~(DigitRun(s, 1) >= 4 /\ Len(s) >= 5 /\ s[5] = "-") THEN NoParse
  ELSE Only({ IF ~(km \in {1, 2} /\ Num(s, 6, km) \in 1..12
                   /\ Len(s) >= 6 + km /\ s[6 + km] = "-")
              THEN NoParse
              ELSE ParseDay(s, Num(s, 1, 4), Num(s, 6, km), 7 + km) :
              km \in {DigitRun(s, 6)} })

\* datetime.strptime(s, '%Y-%m-%d'): the parsed date, or a ValueError (ok = FALSE)
strptime_date(s) ==
  Only({ IF r.ok /\ r.next = Len(s) + 1 THEN [ok |-> TRUE, v |-> r.v]
         ELSE [ok |-> FALSE, v |-> <<0, 0, 0>>] : r \in {ParseYmd(s)} })

NoTime == [ok |-> FALSE, v |-> <<0, 0, 0, 0, 0>>]

\* the minute field of '%H:%M' at position pm: [0-5]\d|\d, and no character may
\* remain after it
ParseMinute(s, ymd, h, pm) ==
  Only({ IF kn \in {1, 2} /\ Num(s, pm, kn) \in 0..59 /\ pm + kn = Len(s) + 1
         THEN [ok |-> TRUE, v |-> <<ymd[1], ymd[2], ymd[3], h, Num(s, pm, kn)>>]
         ELSE NoTime : kn \in {DigitRun(s, pm)} })

\* the hour field of '%H:%M' at position ph: 2[0-3]|[0-1]\d|\d, then the colon
ParseHour(s, ymd, ph) ==
  Only({ IF ~(kh \in {1, 2} /\ Num(s, ph, kh) \in 0..23
              /\ Len(s) >= ph + kh /\ s[ph + kh] = ":")
         THEN NoTime
         ELSE ParseMinute(s, ymd, Num(s, ph, kh), ph + kh + 1) :
         kh \in {DigitRun(s, ph)} })

\* datetime.strptime(s, '%Y-%m-%d %H:%M'): the parsed instant, or a ValueError;
\* the space of the format matches \s+
strptime_datetime(s) ==
  Only({ IF ~r.ok THEN NoTime
         ELSE Only({ IF ks >= 1 THEN ParseHour(s, r.v, r.next + ks) ELSE NoTime :
                     ks \in {SpaceRun(s, r.next)} }) :
         r \in {ParseYmd(s)} })

\* chronological order of parsed instants <<year, month, day, hour, minute>>
InstantLess(a, b) ==
  \E i \in 1..5 : a[i] < b[i] /\ \A j \in 1..(i - 1) : a[j] = b[j]

SqlNull == [null |-> TRUE, v |-> <<0, 0, 0, 0, 0>>]

\* SQLite datetime(s) on a text value (date.c, parseYyyyMmDd then parseHhMmSs):
\* exactly YYYY-MM-DD, then any whitespace, then exactly HH:MM or nothing; any
\* other text gives NULL.  The value stands for the normalised text
\* 'YYYY-MM-DD HH:MM:00', whose text order is the order of the instants.
sqlite_datetime(s) ==
  IF ~(Len(s) >= 10 /\ DigitRun(s, 1) >= 4 /\ s[5] = "-"
       /\ IsDigit(s[6]) /\ IsDigit(s[7]) /\ s[8] = "-"
       /\ IsDigit(s[9]) /\ IsDigit(s[10])
       /\ Num(s, 6, 2) \in 1..12 /\ Num(s, 9, 2) \in 1..31)
  THEN SqlNull
  ELSE
    LET ymd == <<Num(s, 1, 4), Num(s, 6, 2), Num(s, 9, 2)>>
        p   == 11 + SpaceRun(s, 11)
    IN  IF p = Len(s) + 1 THEN [null |-> FALSE, v |-> ymd \o <<0, 0>>]
        ELSE IF /\ Len(s) = p + 4
                /\ IsDigit(s[p]) /\ IsDigit(s[p + 1]) /\ s[p + 2] = ":"
                /\ IsDigit(s[p + 3]) /\ IsDigit(s[p + 4])
                /\ Num(s, p, 2) <= 24 /\ Num(s, p + 3, 2) <= 59
        THEN [null |-> FALSE, v |-> ymd \o <<Num(s, p, 2), Num(s, p + 3, 2)>>]
        ELSE SqlNull

----------------------------------------------------------------------------
(* config.py and models.py: constants and validators.  A validator gives  *)
(* [ok, v]: ok = FALSE stands for the ValidationError it raises.          *)

AIRPORT_CODE_LENGTH == 3

Captain == <<"C","a","p","t","a","i","n">>
FirstOfficer == <<"F","i","r","s","t"," ","O","f","f","i","c","e","r">>

VALID_RANKS == {Captain, FirstOfficer}

Scheduled == <<"S","c","h","e","d","u","l","e","d">>
Boarding == <<"B","o","a","r","d","i","n","g">>
Departed == <<"D","e","p","a","r","t","e","d">>
Cancelled == <<"C","a","n","c","e","l","l","e","d">>
Delayed == <<"D","e","l","a","y","e","d">>

VALID_STATUSES == {Scheduled, Boarding, Departed, Cancelled, Delayed}

validate_date(date_string) ==
  [ok |-> strptime_date(date_string).ok, v |-> date_string]

validate_datetime(datetime_string) ==
  [ok |-> strptime_datetime(datetime_string).ok, v |-> datetime_string]

\* variant of validate_airport_code without the isalpha() test
validate_airport_code_length_only(code) ==
  LET c == strip(upper(code))
  IN  [ok |-> ~(Len(c) # AIRPORT_CODE_LENGTH), v |-> c]

validate_airport_code(code) ==
  LET c == strip(upper(code))
  IN  [ok |-> ~(Len(c) # AIRPORT_CODE_LENGTH \/ ~isalpha(c)), v |-> c]

validate_flight_status(status) ==
  LET s == capitalize(status)
  IN  [ok |-> s \in VALID_STATUSES, v |-> s]

validate_rank(rank) ==
  LET r == title(rank)
  IN  [ok |-> r \in VALID_RANKS, v |-> r]

validate_positive_number(value) == [ok |-> ~(value <= 0), v |-> value]

validate_flight_number(flight_number) ==
  LET n == strip(upper(flight_number))
  IN  [ok |-> n # <<>>, v |-> n]

validate_licence_number(licence) ==
  LET l == upper(strip(licence))
  IN  [ok |-> l # <<>>, v |-> l]

\* variant of confirm_action that accepts every answer starting with y
confirm_action_first_letter(answer) ==
  lower(strip(answer)) # <<>> /\ lower(strip(answer))[1] = "y"

\* utils.py: the answer typed at the "Apply changes? (y/n): " prompt
confirm_action(answer) == lower(strip(answer)) = <<"y">>

----------------------------------------------------------------------------
(* database.py: the schema's rows, the seed and the SQL statements.  A    *)
(* store is the content of the five tables the operations write or read;  *)
(* FlightStatus is seeded once and never written.                         *)

RouteRow(id, o, d, km, mins) ==
  [route_id |-> id, origin_code |-> o, dest_code |-> d,
   distance_km |-> km, flight_duration_mins |-> mins]

PilotRow(id, lic, nm, rk) ==
  [pilot_id |-> id, licence_no |-> lic, name |-> nm, rank |-> rk]

FlightRow(id, num, date, rid, dep, arr, sid) ==
  [flight_id |-> id, flight_number |-> num, flight_date |-> date, route_id |-> rid,
   sched_dep_utc |-> dep, sched_arr_utc |-> arr, status_id |-> sid]

CrewRow(fid, pid, role) == [flight_id |-> fid, pilot_id |-> pid, role |-> role]

\* spelling helpers for the seed's text values
Jun(dd) == <<"2","0","2","5","-","0","6","-">> \o dd
At(date, hhmm) == date \o <<" ">> \o hhmm
BA(nnn) == <<"B","A">> \o nnn
Lic(nnnn) == <<"L","I","C">> \o nnnn

\* database.py 193-198
FlightStatus ==
  { [status_id |-> 1, status_name |-> Scheduled],
    [status_id |-> 2, status_name |-> Boarding],
    [status_id |-> 3, status_name |-> Departed],
    [status_id |-> 4, status_name |-> Cancelled],
    [status_id |-> 5, status_name |-> Delayed] }

\* database.py 157-172: the airport codes (the other columns are never read by a write)
SeedAirport ==
  { <<"L","H","R">>, <<"L","G","W">>, <<"M","A","N">>, <<"J","F","K">>,
    <<"L","A","X">>, <<"C","D","G">>, <<"A","M","S">>, <<"F","R","A">>,
    <<"D","X","B">>, <<"S","I","N">>, <<"S","Y","D">>, <<"H","N","D">>,
    <<"Y","Y","Z">>, <<"D","E","L">>, <<"A","T","L">> }

\* database.py 175-190
SeedRoute ==
  { RouteRow(1, <<"L","H","R">>, <<"J","F","K">>, 5556, 420),
    RouteRow(2, <<"L","H","R">>, <<"D","X","B">>, 5500, 415),
    RouteRow(3, <<"L","G","W">>, <<"A","M","S">>, 358, 60),
    RouteRow(4, <<"M","A","N">>, <<"C","D","G">>, 592, 85),
    RouteRow(5, <<"J","F","K">>, <<"L","A","X">>, 3974, 330),
    RouteRow(6, <<"C","D","G">>, <<"S","I","N">>, 10733, 800),
    RouteRow(7, <<"A","M","S">>, <<"F","R","A">>, 367, 60),
    RouteRow(8, <<"F","R","A">>, <<"H","N","D">>, 9363, 720),
    RouteRow(9, <<"D","X","B">>, <<"S","Y","D">>, 12035, 860),
    RouteRow(10, <<"S","I","N">>, <<"S","Y","D">>, 6300, 480),
    RouteRow(11, <<"H","N","D">>, <<"L","A","X">>, 8821, 650),
    RouteRow(12, <<"Y","Y","Z">>, <<"D","E","L">>, 702, 90),
    RouteRow(13, <<"D","E","L">>, <<"A","T","L">>, 975, 110),
    RouteRow(14, <<"A","T","L">>, <<"L","H","R">>, 6763, 460),
    RouteRow(15, <<"M","A","N">>, <<"Y","Y","Z">>, 5410, 400) }

\* database.py 201-216
SeedPilot ==
  { PilotRow(1, Lic(<<"1","0","0","1">>), "Alice Adams", Captain),
    PilotRow(2, Lic(<<"1","0","0","2">>), "Bob Barker", Captain),
    PilotRow(3, Lic(<<"1","0","0","3">>), "Cara Chen", FirstOfficer),
    PilotRow(4, Lic(<<"1","0","0","4">>), "Dan Diaz", FirstOfficer),
    PilotRow(5, Lic(<<"1","0","0","5">>), "Eva Edwards", Captain),
    PilotRow(6, Lic(<<"1","0","0","6">>), "Felix Foley", FirstOfficer),
    PilotRow(7, Lic(<<"1","0","0","7">>), "Grace Gibson", Captain),
    PilotRow(8, Lic(<<"1","0","0","8">>), "Hank Hansen", FirstOfficer),
    PilotRow(9, Lic(<<"1","0","0","9">>), "Ivy Ibrahim", Captain),
    PilotRow(10, Lic(<<"1","0","1","0">>), "Jack Jones", FirstOfficer),
    PilotRow(11, Lic(<<"1","0","1","1">>), "Kara Klein", Captain),
    PilotRow(12, Lic(<<"1","0","1","2">>), "Leo Lopez", FirstOfficer),
    PilotRow(13, Lic(<<"1","0","1","3">>), "Mia Moore", Captain),
    PilotRow(14, Lic(<<"1","0","1","4">>), "Ned Nguyen", FirstOfficer),
    PilotRow(15, Lic(<<"1","0","1","5">>), "Ola Olsen", Captain) }

\* database.py 219-234
SeedFlight ==
  { FlightRow(1, BA(<<"1","0","1">>), Jun(<<"0","5">>), 1,
              At(Jun(<<"0","5">>), <<"0","8",":","0","0">>),
              At(Jun(<<"0","5">>), <<"1","5",":","0","0">>), 1),
    FlightRow(2, BA(<<"1","0","2">>), Jun(<<"0","6">>), 2,
              At(Jun(<<"0","6">>), <<"0","7",":","3","0">>),
              At(Jun(<<"0","6">>), <<"1","4",":","2","5">>), 1),
    FlightRow(3, BA(<<"1","0","3">>), Jun(<<"0","7">>), 3,
              At(Jun(<<"0","7">>), <<"0","9",":","0","0">>),
              At(Jun(<<"0","7">>), <<"1","0",":","0","0">>), 1),
    FlightRow(4, BA(<<"1","0","4">>), Jun(<<"0","8">>), 4,
              At(Jun(<<"0","8">>), <<"1","0",":","0","0">>),
              At(Jun(<<"0","8">>), <<"1","1",":","2","5">>), 2),
    FlightRow(5, BA(<<"1","0","5">>), Jun(<<"0","9">>), 5,
              At(Jun(<<"0","9">>), <<"1","2",":","0","0">>),
              At(Jun(<<"0","9">>), <<"1","7",":","3","0">>), 1),
    FlightRow(6, BA(<<"1","0","6">>), Jun(<<"1","0">>), 6,
              At(Jun(<<"1","0">>), <<"0","6",":","0","0">>),
              At(Jun(<<"1","0">>), <<"1","9",":","2","0">>), 1),
    FlightRow(7, BA(<<"1","0","7">>), Jun(<<"1","1">>), 7,
              At(Jun(<<"1","1">>), <<"0","8",":","0","0">>),
              At(Jun(<<"1","1">>), <<"0","9",":","0","0">>), 1),
    FlightRow(8, BA(<<"1","0","8">>), Jun(<<"1","2">>), 8,
              At(Jun(<<"1","2">>), <<"0","3",":","0","0">>),
              At(Jun(<<"1","2">>), <<"1","5",":","0","0">>), 1),
    FlightRow(9, BA(<<"1","0","9">>), Jun(<<"1","3">>), 9,
              At(Jun(<<"1","3">>), <<"0","0",":","0","0">>),
              At(Jun(<<"1","3">>), <<"1","4",":","2","0">>), 1),
    FlightRow(10, BA(<<"1","1","0">>), Jun(<<"1","4">>), 10,
              At(Jun(<<"1","4">>), <<"0","2",":","0","0">>),
              At(Jun(<<"1","4">>), <<"1","0",":","0","0">>), 2),
    FlightRow(11, BA(<<"1","1","1">>), Jun(<<"1","5">>), 11,
              At(Jun(<<"1","5">>), <<"1","8",":","0","0">>),
              At(Jun(<<"1","6">>), <<"0","5",":","5","0">>), 1),
    FlightRow(12, BA(<<"1","1","2">>), Jun(<<"1","6">>), 12,
              At(Jun(<<"1","6">>), <<"1","3",":","0","0">>),
              At(Jun(<<"1","6">>), <<"1","4",":","3","0">>), 1),
    FlightRow(13, BA(<<"1","1","3">>), Jun(<<"1","7">>), 13,
              At(Jun(<<"1","7">>), <<"1","5",":","0","0">>),
              At(Jun(<<"1","7">>), <<"1","6",":","5","0">>), 1),
    FlightRow(14, BA(<<"1","1","4">>), Jun(<<"1","8">>), 14,
              At(Jun(<<"1","8">>), <<"0","9",":","0","0">>),
              At(Jun(<<"1","8">>), <<"1","6",":","4","0">>), 5),
    FlightRow(15, BA(<<"1","1","5">>), Jun(<<"1","9">>), 15,
              At(Jun(<<"1","9">>), <<"0","7",":","0","0">>),
              At(Jun(<<"1","9">>), <<"1","3",":","4","0">>), 3) }

\* database.py 237-257
SeedCrewAssignment ==
  { CrewRow(1, 1, Captain), CrewRow(2, 2, Captain), CrewRow(3, 5, Captain),
    CrewRow(4, 7, Captain), CrewRow(5, 9, Captain), CrewRow(6, 11, Captain),
    CrewRow(7, 13, Captain), CrewRow(8, 15, Captain), CrewRow(9, 1, Captain),
    CrewRow(10, 2, Captain), CrewRow(11, 5, Captain), CrewRow(12, 7, Captain),
    CrewRow(13, 9, Captain), CrewRow(14, 11, Captain), CrewRow(15, 13, Captain),
    CrewRow(1, 3, FirstOfficer), CrewRow(2, 4, FirstOfficer), CrewRow(3, 6, FirstOfficer),
    CrewRow(4, 8, FirstOfficer), CrewRow(5, 10, FirstOfficer) }

\* the store initialise_tables() commits
Seed ==
  [Airport |-> SeedAirport, Route |-> SeedRoute, Pilot |-> SeedPilot,
   Flight |-> SeedFlight, CrewAssignment |-> SeedCrewAssignment]

Max(S) == CHOOSE x \in S : \A y \in S : y <= x

\* INTEGER PRIMARY KEY AUTOINCREMENT: rows are never deleted and a rolled-back
\* insert leaves sqlite_sequence as it was, so the next id is the largest plus one
NextId(ids) == IF ids = {} THEN 1 ELSE Max(ids) + 1

\* a statement's result: err = "" when it ran, else the sqlite3.IntegrityError text;
\* lastrowid is the rowid an INSERT gave its row
Ran(st) == [err |-> "", db |-> st, lastrowid |-> 0]
Inserted(st, id) == [err |-> "", db |-> st, lastrowid |-> id]
Failed(e, st) == [err |-> e, db |-> st, lastrowid |-> 0]

UniqueFailed == "UNIQUE constraint failed"
ForeignKeyFailed == "FOREIGN KEY constraint failed"
CheckFailed == "CHECK constraint failed"

\* INSERT INTO Airport: PRIMARY KEY and CHECK(length(airport_code) = 3)
InsertAirport(st, code) ==
  IF code \in st.Airport THEN Failed(UniqueFailed, st)
  ELSE IF Len(code) # 3 THEN Failed(CheckFailed, st)
  ELSE Ran([st EXCEPT !.Airport = @ \cup {code}])

\* variant of InsertRoute for a Route table without UNIQUE (origin_code, dest_code)
InsertRoute_no_unique(st, o, d, km, mins) ==
  IF o \notin st.Airport \/ d \notin st.Airport
  THEN Failed(ForeignKeyFailed, st)
  ELSE LET id == NextId({r.route_id : r \in st.Route})
       IN  Inserted([st EXCEPT !.Route = @ \cup {RouteRow(id, o, d, km, mins)}], id)

\* variant of InsertRoute on a connection without PRAGMA foreign_keys = ON
InsertRoute_no_foreign_keys(st, o, d, km, mins) ==
  IF \E r \in st.Route : r.origin_code = o /\ r.dest_code = d
  THEN Failed(UniqueFailed, st)
  ELSE LET id == NextId({r.route_id : r \in st.Route})
       IN  Inserted([st EXCEPT !.Route = @ \cup {RouteRow(id, o, d, km, mins)}], id)

\* INSERT INTO Route: UNIQUE (origin_code, dest_code), then the two foreign keys
InsertRoute(st, o, d, km, mins) ==
  IF \E r \in st.Route : r.origin_code = o /\ r.dest_code = d
  THEN Failed(UniqueFailed, st)
  ELSE IF o \notin st.Airport \/ d \notin st.Airport
  THEN Failed(ForeignKeyFailed, st)
  ELSE LET id == NextId({r.route_id : r \in st.Route})
       IN  Inserted([st EXCEPT !.Route = @ \cup {RouteRow(id, o, d, km, mins)}], id)

\* CHECK (datetime(sched_arr_utc) > datetime(sched_dep_utc)): a CHECK fails only
\* when its expression is false; a NULL (either datetime() is NULL) passes
FlightCheck(dep, arr) ==
  LET a == sqlite_datetime(arr)
      d == sqlite_datetime(dep)
  IN  a.null \/ d.null \/ InstantLess(d.v, a.v)

\* INSERT INTO Flight: the CHECK, UNIQUE (flight_number, flight_date), foreign keys
InsertFlight(st, num, date, rid, dep, arr, sid) ==
  IF ~FlightCheck(dep, arr) THEN Failed(CheckFailed, st)
  ELSE IF \E f \in st.Flight : f.flight_number = num /\ f.flight_date = date
  THEN Failed(UniqueFailed, st)
  ELSE IF ~(\E r \in st.Route : r.route_id = rid)
          \/ ~(\E s \in FlightStatus : s.status_id = sid)
  THEN Failed(ForeignKeyFailed, st)
  ELSE LET id == NextId({f.flight_id : f \in st.Flight})
       IN  Inserted([st EXCEPT !.Flight =
                       @ \cup {FlightRow(id, num, date, rid, dep, arr, sid)}], id)

\* INSERT INTO Pilot: UNIQUE licence_no, the index on UPPER(TRIM(licence_no)),
\* CHECK (rank IN ('Captain', 'First Officer'))
InsertPilot(st, lic, nm, rk) ==
  IF rk \notin {Captain, FirstOfficer} THEN Failed(CheckFailed, st)
  ELSE IF \E p \in st.Pilot : \/ p.licence_no = lic
                              \/ upper(strip(p.licence_no)) = upper(strip(lic))
  THEN Failed(UniqueFailed, st)
  ELSE LET id == NextId({p.pilot_id : p \in st.Pilot})
       IN  Inserted([st EXCEPT !.Pilot = @ \cup {PilotRow(id, lic, nm, rk)}], id)

\* variant of UpdateFlightRoute that updates no row
UpdateFlightRoute_none(st, rid, fid) == Ran(st)

\* UPDATE Flight SET route_id=? WHERE flight_id=?
UpdateFlightRoute(st, rid, fid) ==
  IF (\E f \in st.Flight : f.flight_id = fid) /\ ~(\E r \in st.Route : r.route_id = rid)
  THEN Failed(ForeignKeyFailed, st)
  ELSE Ran([st EXCEPT !.Flight =
              { IF f.flight_id = fid THEN [f EXCEPT !.route_id = rid] ELSE f : f \in @ }])

\* UPDATE Flight SET sched_dep_utc=?, sched_arr_utc=? WHERE flight_id=?
UpdateFlightTimes(st, dep, arr, fid) ==
  IF (\E f \in st.Flight : f.flight_id = fid) /\ ~FlightCheck(dep, arr)
  THEN Failed(CheckFailed, st)
  ELSE Ran([st EXCEPT !.Flight =
              { IF f.flight_id = fid
                  THEN [f EXCEPT !.sched_dep_utc = dep, !.sched_arr_utc = arr]
                  ELSE f : f \in @ }])

\* UPDATE Flight SET status_id=? WHERE flight_id=?
UpdateFlightStatus(st, sid, fid) ==
  IF (\E f \in st.Flight : f.flight_id = fid)
     /\ ~(\E s \in FlightStatus : s.status_id = sid)
  THEN Failed(ForeignKeyFailed, st)
  ELSE Ran([st EXCEPT !.Flight =
              { IF f.flight_id = fid THEN [f EXCEPT !.status_id = sid] ELSE f : f \in @ }])

\* variant of DeleteCrewAssignment that deletes no row
DeleteCrewAssignment_none(st, fid, role) == Ran(st)

\* variant of DeleteCrewAssignment without the condition on role
DeleteCrewAssignment_any_role(st, fid, role) ==
  Ran([st EXCEPT !.CrewAssignment = { c \in @ : ~(c.flight_id = fid) }])

\* DELETE FROM CrewAssignment WHERE flight_id=? AND role=?
DeleteCrewAssignment(st, fid, role) ==
  Ran([st EXCEPT !.CrewAssignment =
         { c \in @ : ~(c.flight_id = fid /\ c.role = role) }])

\* INSERT INTO CrewAssignment: CHECK on role, PRIMARY KEY (flight_id, pilot_id),
\* the unique index idx_flight_role_unique on (flight_id, role), foreign keys
InsertCrewAssignment(st, fid, pid, role) ==
  IF role \notin {Captain, FirstOfficer} THEN Failed(CheckFailed, st)
  ELSE IF \E c \in st.CrewAssignment : c.flight_id = fid /\ c.pilot_id = pid
  THEN Failed(UniqueFailed, st)
  ELSE IF \E c \in st.CrewAssignment : c.flight_id = fid /\ c.role = role
  THEN Failed(UniqueFailed, st)
  ELSE IF ~(\E f \in st.Flight : f.flight_id = fid)
          \/ ~(\E p \in st.Pilot : p.pilot_id = pid)
  THEN Failed(ForeignKeyFailed, st)
  ELSE Ran([st EXCEPT !.CrewAssignment = @ \cup {CrewRow(fid, pid, role)}])

----------------------------------------------------------------------------
(* database.py get_connection and the operations' try/except.              *)
(*                                                                         *)
(* An outcome records what one call did: db is the store the connection   *)
(* works on (for a finished call, the committed store), exc the exception *)
(* that ended the with-block or the validation ("" for none), msg the     *)
(* text printed, begin how a transaction was opened ("none", "BEGIN" for  *)
(* conn.execute("BEGIN"), "implicit" for the one the sqlite3 module opens *)
(* before a write), end how it ended ("none", "commit", "rollback", or    *)
(* "close" when conn.close() discards it), raised the exception that      *)
(* leaves the operation ("" for none), steps the statements and calls the *)
(* operation executed, in order, conn the connection ("none" when none    *)
(* was acquired), preview what format_preview printed.                    *)

\* no preview was printed
NoPreview == [current |-> {}, proposed |-> {}, changes |-> {}]

Outcome(st, exc, msg, begin, end) ==
  [db |-> st, exc |-> exc, msg |-> msg, begin |-> begin, end |-> end, raised |-> exc,
   steps |-> <<>>, conn |-> "none", preview |-> NoPreview]

\* the outcome o of a path that executed the steps s
Steps(s, o) == [o EXCEPT !.steps = s]

\* the outcome o of a path on which format_preview printed p
Previewed(p, o) == [o EXCEPT !.preview = p]

ValidationError == "ValidationError"
DatabaseError == "DatabaseError"
IntegrityError == "sqlite3.IntegrityError"
KeyboardInterrupt == "KeyboardInterrupt"
EOFError == "EOFError"

\* the subclasses of sqlite3.Error a statement of this program can raise
IsSqliteError(exc) == exc \in {IntegrityError}

\* variant of get_connection without the except sqlite3.Error clause
get_connection_no_except(committed, body) ==
  IF body.end = "commit"
  THEN [body EXCEPT !.steps = <<"connect">> \o @ \o <<"close">>, !.conn = "closed"]
  ELSE [body EXCEPT !.db = committed, !.end = IF body.begin # "none" THEN "close" ELSE @,
                    !.steps = <<"connect">> \o @ \o <<"close">>, !.conn = "closed"]

\* variant of get_connection without the finally clause
get_connection_no_close(committed, body) ==
  IF IsSqliteError(body.exc)
  THEN [body EXCEPT !.db = committed, !.exc = DatabaseError, !.raised = DatabaseError,
                    !.msg = "Database Error: " \o @, !.end = "rollback",
                    !.steps = <<"connect">> \o @ \o <<"rollback">>, !.conn = "open"]
  ELSE [body EXCEPT !.steps = <<"connect">> \o @, !.conn = "open"]

\* with get_connection() as conn: body.  A sqlite3.Error leaving the body is rolled
\* back and re-raised as DatabaseError; in every case the connection is closed, and
\* closing discards a transaction that was neither committed nor rolled back.
get_connection(committed, body) ==
  IF IsSqliteError(body.exc)
  THEN [body EXCEPT !.db = committed, !.exc = DatabaseError, !.raised = DatabaseError,
                    !.msg = "Database Error: " \o @, !.end = "rollback",
                    !.steps = <<"connect">> \o @ \o <<"rollback", "close">>,
                    !.conn = "closed"]
  ELSE IF body.end = "commit"
  THEN [body EXCEPT !.steps = <<"connect">> \o @ \o <<"close">>, !.conn = "closed"]
  ELSE IF body.begin # "none" /\ body.end = "none"
  THEN [body EXCEPT !.db = committed, !.end = "close",
                    !.steps = <<"connect">> \o @ \o <<"close">>, !.conn = "closed"]
  ELSE [body EXCEPT !.db = committed,
                    !.steps = <<"connect">> \o @ \o <<"close">>, !.conn = "closed"]

\* variant of except_reported with the clause: except DatabaseError as e
except_reported_database_only(r) ==
  IF r.exc = DatabaseError THEN [r EXCEPT !.raised = ""] ELSE r

\* except (ValidationError, DatabaseError) as e: print(str(e))
except_reported(r) ==
  IF r.exc \in {ValidationError, DatabaseError} THEN [r EXCEPT !.raised = ""] ELSE r

\* except ValidationError / except sqlite3.IntegrityError: print(conflict) /
\* except DatabaseError, in this order
except_conflict(r, conflict) ==
  IF r.exc = ValidationError THEN [r EXCEPT !.raised = ""]
  ELSE IF r.exc = IntegrityError THEN [r EXCEPT !.raised = "", !.msg = conflict]
  ELSE IF r.exc = DatabaseError THEN [r EXCEPT !.raised = ""]
  ELSE r

\* format_preview(old, new): the keys printed under "--- Current ---" (all but
\* flight_id), the keys printed under "--- Proposed ---" and the keys reported
\* as changed
format_preview(old, new) ==
  [current  |-> { k \in DOMAIN old : k \notin {"flight_id"} },
   proposed |-> DOMAIN new,
   changes  |-> { k \in DOMAIN new : k \in DOMAIN old /\ old[k] # new[k] }]

\* the line typed at a prompt that stands for Ctrl-C, and for end of input
CtrlC == <<"^C">>
CtrlD == <<"^D">>

\* the exception input() raises instead of returning a line, "" when it returns
input_raises(answer) ==
  IF answer = CtrlC THEN KeyboardInterrupt
  ELSE IF answer = CtrlD THEN EOFError
  ELSE ""

----------------------------------------------------------------------------
(* The flight detail view and _load_flight                                 *)

NullPilot == [pilot_id |-> 0, name |-> "NULL"]

\* LEFT JOIN CrewAssignment ... AND role = ?  LEFT JOIN Pilot: the pilots holding
\* the role on the flight, or one NULL pilot when there is none
RolePilots(st, fid, role) ==
  LET ps == { p \in st.Pilot : \E c \in st.CrewAssignment :
                c.flight_id = fid /\ c.role = role /\ c.pilot_id = p.pilot_id }
  IN  IF ps = {} THEN {NullPilot}
      ELSE { [pilot_id |-> p.pilot_id, name |-> p.name] : p \in ps }

\* the rows of v_flight_details for one Flight row
ViewRows(st, f) ==
  { [flight_id |-> f.flight_id, flight_number |-> f.flight_number,
     flight_date |-> f.flight_date,
     sched_dep_utc |-> f.sched_dep_utc, sched_arr_utc |-> f.sched_arr_utc,
     status_name |-> x[2].status_name,
     origin_code |-> x[1].origin_code, dest_code |-> x[1].dest_code,
     captain_name |-> x[3].name, captain_id |-> x[3].pilot_id,
     fo_name |-> x[4].name, fo_id |-> x[4].pilot_id] :
    x \in { r \in st.Route : r.route_id = f.route_id }
          \X { s \in FlightStatus : s.status_id = f.status_id }
          \X RolePilots(st, f.flight_id, Captain)
          \X RolePilots(st, f.flight_id, FirstOfficer) }

v_flight_details(st) == UNION { ViewRows(st, f) : f \in st.Flight }

NoRow == [flight_id |-> 0]

\* variant of _load_flight without the check of fetchone()'s result
load_flight_unchecked(st, flight_number, flight_date) ==
  LET n    == validate_flight_number(flight_number)
      rows == UNION { ViewRows(st, f) :
                      f \in { g \in st.Flight : /\ g.flight_number = n.v
                                                /\ g.flight_date = flight_date } }
  IN  [exc |-> "", msg |-> "", steps |-> <<"SELECT">>,
       row |-> IF rows = {} THEN NoRow ELSE CHOOSE r \in rows : TRUE]

\* _load_flight: the first row of the view for (flight number, date), or the
\* ValidationError it raises
_load_flight(st, flight_number, flight_date) ==
  LET n    == validate_flight_number(flight_number)
      rows == UNION { ViewRows(st, f) :
                      f \in { g \in st.Flight : /\ g.flight_number = n.v
                                                /\ g.flight_date = flight_date } }
  IN  IF ~n.ok
      THEN [exc |-> ValidationError, msg |-> "Flight number cannot be empty",
            steps |-> <<>>, row |-> NoRow]
      ELSE IF rows = {}
      THEN [exc |-> ValidationError, msg |-> "No flight found",
            steps |-> <<"SELECT">>, row |-> NoRow]
      ELSE [exc |-> "", msg |-> "", steps |-> <<"SELECT">>, row |-> CHOOSE r \in rows : TRUE]

----------------------------------------------------------------------------
(* queries.py: the mutation operations.  st is the committed store at the *)
(* call, answer the line typed at the confirmation prompt.                *)

change_route_body(st, flight_number, flight_date, new_origin, new_dest, answer) ==
  LET flight == _load_flight(st, flight_number, flight_date)
      pv == format_preview(flight.row, [flight.row EXCEPT !.origin_code = new_origin,
                                                           !.dest_code = new_dest])
      asked == <<"BEGIN", "SELECT", "preview", "confirm">>
  IN  IF flight.exc # ""
      THEN Steps(<<"BEGIN">> \o flight.steps,
                 Outcome(st, flight.exc, flight.msg, "BEGIN", "none"))
      ELSE IF input_raises(answer) # ""
      THEN Previewed(pv, Steps(asked, Outcome(st, input_raises(answer), "", "BEGIN", "none")))
      ELSE IF ~confirm_action(answer)
      THEN Previewed(pv, Steps(asked \o <<"rollback">>,
                               Outcome(st, "", "Route change cancelled", "BEGIN", "rollback")))
      ELSE
        LET found == { r \in st.Route : r.origin_code = new_origin
                                        /\ r.dest_code = new_dest }
            ins   == IF found # {} THEN Ran(st) ELSE InsertRoute(st, new_origin, new_dest, 0, 0)
            route_id == IF found # {} THEN (CHOOSE r \in found : TRUE).route_id
                        ELSE ins.lastrowid
            upd   == UpdateFlightRoute(ins.db, route_id, flight.row.flight_id)
            sel   == asked \o <<"SELECT">> \o (IF found # {} THEN <<>> ELSE <<"INSERT">>)
        IN  IF ins.err # ""
            THEN Previewed(pv, Steps(sel, Outcome(st, IntegrityError, ins.err, "BEGIN", "none")))
            ELSE IF upd.err # ""
            THEN Previewed(pv, Steps(sel \o <<"UPDATE">>,
                                     Outcome(ins.db, IntegrityError, upd.err, "BEGIN", "none")))
            ELSE Previewed(pv, Steps(sel \o <<"UPDATE", "commit">>,
                     Outcome(upd.db, "", "Route updated successfully", "BEGIN", "commit")))

change_route(st, flight_number, flight_date, new_origin, new_dest, answer) ==
  LET o == validate_airport_code(new_origin)
      d == validate_airport_code(new_dest)
      fd == validate_date(flight_date)
  IN  except_reported(
        IF ~o.ok \/ ~d.ok
        THEN Outcome(st, ValidationError, "Airport code must be exactly 3 letters",
                     "none", "none")
        ELSE IF ~fd.ok
        THEN Outcome(st, ValidationError, "Invalid date format", "none", "none")
        ELSE get_connection(st, change_route_body(st, flight_number, fd.v, o.v, d.v, answer)))

change_times_body(st, flight_number, flight_date, new_dep, new_arr, answer) ==
  LET flight == _load_flight(st, flight_number, flight_date)
      pv == format_preview(flight.row, [flight.row EXCEPT !.sched_dep_utc = new_dep,
                                                           !.sched_arr_utc = new_arr])
      asked == <<"BEGIN", "SELECT", "preview", "confirm">>
  IN  IF flight.exc # ""
      THEN Steps(<<"BEGIN">> \o flight.steps,
                 Outcome(st, flight.exc, flight.msg, "BEGIN", "none"))
      ELSE IF input_raises(answer) # ""
      THEN Previewed(pv, Steps(asked, Outcome(st, input_raises(answer), "", "BEGIN", "none")))
      ELSE IF ~confirm_action(answer)
      THEN Previewed(pv, Steps(asked \o <<"rollback">>,
                               Outcome(st, "", "Time change cancelled.", "BEGIN", "rollback")))
      ELSE
        LET upd == UpdateFlightTimes(st, new_dep, new_arr, flight.row.flight_id)
        IN  IF upd.err # ""
            THEN Previewed(pv, Steps(asked \o <<"UPDATE">>,
                                     Outcome(st, IntegrityError, upd.err, "BEGIN", "none")))
            ELSE Previewed(pv, Steps(asked \o <<"UPDATE", "commit">>,
                     Outcome(upd.db, "", "Times updated successfully", "BEGIN", "commit")))

change_times(st, flight_number, flight_date, new_dep, new_arr, answer) ==
  LET dep == validate_datetime(new_dep)
      arr == validate_datetime(new_arr)
      fd  == validate_date(flight_date)
  IN  except_reported(
        IF ~dep.ok \/ ~arr.ok
        THEN Outcome(st, ValidationError, "Invalid datetime format", "none", "none")
        ELSE IF ~fd.ok
        THEN Outcome(st, ValidationError, "Invalid date format", "none", "none")
        ELSE IF StrGE(dep.v, arr.v)
        THEN Outcome(st, ValidationError, "Departure time must be before arrival time",
                     "none", "none")
        ELSE get_connection(st, change_times_body(st, flight_number, fd.v, dep.v, arr.v, answer)))

\* variant of change_status's with-block that looks the status up after BEGIN
change_status_body_begin_first(st, flight_number, flight_date, new_status, answer) ==
  LET sid == { s \in FlightStatus : s.status_name = new_status }
      flight == _load_flight(st, flight_number, flight_date)
      asked == <<"BEGIN", "SELECT", "SELECT", "preview", "confirm">>
  IN  IF sid = {}
      THEN Steps(<<"BEGIN", "SELECT">>,
                 Outcome(st, ValidationError, "Invalid status", "BEGIN", "none"))
      ELSE IF flight.exc # ""
      THEN Steps(<<"BEGIN", "SELECT">> \o flight.steps,
                 Outcome(st, flight.exc, flight.msg, "BEGIN", "none"))
      ELSE
        LET pv == format_preview(flight.row, [flight.row EXCEPT !.status_name = new_status])
            upd == UpdateFlightStatus(st, (CHOOSE s \in sid : TRUE).status_id,
                                      flight.row.flight_id)
        IN  IF input_raises(answer) # ""
            THEN Previewed(pv, Steps(asked,
                                     Outcome(st, input_raises(answer), "", "BEGIN", "none")))
            ELSE IF ~confirm_action(answer)
            THEN Previewed(pv, Steps(asked \o <<"rollback">>,
                     Outcome(st, "", "Status change cancelled.", "BEGIN", "rollback")))
            ELSE IF upd.err # ""
            THEN Previewed(pv, Steps(asked \o <<"UPDATE">>,
                                     Outcome(st, IntegrityError, upd.err, "BEGIN", "none")))
            ELSE Previewed(pv, Steps(asked \o <<"UPDATE", "commit">>,
                     Outcome(upd.db, "", "Status updated successfully", "BEGIN", "commit")))

change_status_body(st, flight_number, flight_date, new_status, answer) ==
  LET sid == { s \in FlightStatus : s.status_name = new_status }
      flight == _load_flight(st, flight_number, flight_date)
      asked == <<"SELECT", "BEGIN", "SELECT", "preview", "confirm">>
  IN  IF sid = {}
      THEN Steps(<<"SELECT">>, Outcome(st, ValidationError, "Invalid status", "none", "none"))
      ELSE IF flight.exc # ""
      THEN Steps(<<"SELECT", "BEGIN">> \o flight.steps,
                 Outcome(st, flight.exc, flight.msg, "BEGIN", "none"))
      ELSE
        LET pv == format_preview(flight.row, [flight.row EXCEPT !.status_name = new_status])
            upd == UpdateFlightStatus(st, (CHOOSE s \in sid : TRUE).status_id,
                                      flight.row.flight_id)
        IN  IF input_raises(answer) # ""
            THEN Previewed(pv, Steps(asked,
                                     Outcome(st, input_raises(answer), "", "BEGIN", "none")))
            ELSE IF ~confirm_action(answer)
            THEN Previewed(pv, Steps(asked \o <<"rollback">>,
                     Outcome(st, "", "Status change cancelled.", "BEGIN", "rollback")))
            ELSE IF upd.err # ""
            THEN Previewed(pv, Steps(asked \o <<"UPDATE">>,
                                     Outcome(st, IntegrityError, upd.err, "BEGIN", "none")))
            ELSE Previewed(pv, Steps(asked \o <<"UPDATE", "commit">>,
                     Outcome(upd.db, "", "Status updated successfully", "BEGIN", "commit")))

change_status(st, flight_number, flight_date, new_status, answer) ==
  LET s  == validate_flight_status(new_status)
      fd == validate_date(flight_date)
  IN  except_reported(
        IF ~s.ok THEN Outcome(st, ValidationError, "Invalid status", "none", "none")
        ELSE IF ~fd.ok
        THEN Outcome(st, ValidationError, "Invalid date format", "none", "none")
        ELSE get_connection(st, change_status_body(st, flight_number, fd.v, s.v, answer)))

\* variant of ReassignCrew: the INSERT alone, into a table without its unique indexes
ReassignCrew_insert_only(st, flight_id, pilot_id, role) ==
  Ran([st EXCEPT !.CrewAssignment = @ \cup {CrewRow(flight_id, pilot_id, role)}])

\* variant of ReassignCrew: the DELETE alone
ReassignCrew_delete_only(st, flight_id, pilot_id, role) ==
  DeleteCrewAssignment(st, flight_id, role)

\* DELETE the flight's assignment for the role, then INSERT the new one, on the
\* connection's open transaction (queries.py 282-290, 334-342; queries_add.py 188-198)
ReassignCrew(st, flight_id, pilot_id, role) ==
  LET del == DeleteCrewAssignment(st, flight_id, role)
  IN  InsertCrewAssignment(del.db, flight_id, pilot_id, role)

\* variant of PilotCheck without the comparison of the pilot's rank
PilotCheck_no_rank(st, pilot_id, rank, notRank) ==
  LET pilot == { p \in st.Pilot : p.pilot_id = pilot_id }
  IN  IF pilot = {} THEN "Pilot not found" ELSE ""

\* the pilot and rank check all three crew operations start with
PilotCheck(st, pilot_id, rank, notRank) ==
  LET pilot == { p \in st.Pilot : p.pilot_id = pilot_id }
  IN  IF pilot = {} THEN "Pilot not found"
      ELSE IF (CHOOSE p \in pilot : TRUE).rank # rank THEN notRank
      ELSE ""

\* the name column of the pilot SELECTed by the crew operations
PilotName(st, pilot_id) == (CHOOSE p \in st.Pilot : p.pilot_id = pilot_id).name

\* the part of the crew operations' with-block after the pilot check: BEGIN, load,
\* preview, confirmation and the reassignment of the role
change_crew_transaction(st, flight, pv, pilot_id, role, answer, cancelled, done) ==
  LET asked == <<"SELECT", "BEGIN", "SELECT", "preview", "confirm">>
      w == ReassignCrew(st, flight.row.flight_id, pilot_id, role)
  IN  IF flight.exc # ""
      THEN Steps(<<"SELECT", "BEGIN">> \o flight.steps,
                 Outcome(st, flight.exc, flight.msg, "BEGIN", "none"))
      ELSE IF input_raises(answer) # ""
      THEN Previewed(pv, Steps(asked, Outcome(st, input_raises(answer), "", "BEGIN", "none")))
      ELSE IF ~confirm_action(answer)
      THEN Previewed(pv, Steps(asked \o <<"rollback">>,
                               Outcome(st, "", cancelled, "BEGIN", "rollback")))
      ELSE IF w.err # ""
      THEN Previewed(pv, Steps(asked \o <<"DELETE", "INSERT">>,
                               Outcome(st, IntegrityError, w.err, "BEGIN", "none")))
      ELSE Previewed(pv, Steps(asked \o <<"DELETE", "INSERT", "commit">>,
                               Outcome(w.db, "", done, "BEGIN", "commit")))

\* variant of change_captain's with-block without the return on a declined confirmation
change_captain_body_no_return(st, flight_number, flight_date, new_pilot_id, answer) ==
  LET bad == PilotCheck(st, new_pilot_id, Captain, "is not a Captain")
      flight == _load_flight(st, flight_number, flight_date)
  IN  IF bad # ""
      THEN Steps(<<"SELECT">>, Outcome(st, ValidationError, bad, "none", "none"))
      ELSE change_crew_transaction(st, flight,
             format_preview(flight.row,
                            [flight.row EXCEPT !.captain_name = PilotName(st, new_pilot_id),
                                               !.captain_id = new_pilot_id]),
             new_pilot_id, Captain, <<"y">>,
             "Captain change cancelled.", "Captain reassigned successfully")

change_captain_body(st, flight_number, flight_date, new_pilot_id, answer) ==
  LET bad == PilotCheck(st, new_pilot_id, Captain, "is not a Captain")
      flight == _load_flight(st, flight_number, flight_date)
  IN  IF bad # ""
      THEN Steps(<<"SELECT">>, Outcome(st, ValidationError, bad, "none", "none"))
      ELSE change_crew_transaction(st, flight,
             format_preview(flight.row,
                            [flight.row EXCEPT !.captain_name = PilotName(st, new_pilot_id),
                                               !.captain_id = new_pilot_id]),
             new_pilot_id, Captain, answer,
             "Captain change cancelled.", "Captain reassigned successfully")

change_captain(st, flight_number, flight_date, new_pilot_id, answer) ==
  LET fd == validate_date(flight_date)
  IN  except_reported(
        IF ~fd.ok THEN Outcome(st, ValidationError, "Invalid date format", "none", "none")
        ELSE get_connection(st, change_captain_body(st, flight_number, fd.v, new_pilot_id, answer)))

change_first_officer_body(st, flight_number, flight_date, new_pilot_id, answer) ==
  LET bad == PilotCheck(st, new_pilot_id, FirstOfficer, "is not a First Officer")
      flight == _load_flight(st, flight_number, flight_date)
  IN  IF bad # ""
      THEN Steps(<<"SELECT">>, Outcome(st, ValidationError, bad, "none", "none"))
      ELSE change_crew_transaction(st, flight,
             format_preview(flight.row,
                            [flight.row EXCEPT !.fo_name = PilotName(st, new_pilot_id),
                                               !.fo_id = new_pilot_id]),
             new_pilot_id, FirstOfficer, answer,
             "First Officer change cancelled", "First Officer changed successfully")

change_first_officer(st, flight_number, flight_date, new_pilot_id, answer) ==
  LET fd == validate_date(flight_date)
  IN  except_reported(
        IF ~fd.ok THEN Outcome(st, ValidationError, "Invalid date format", "none", "none")
        ELSE get_connection(st, change_first_officer_body(st, flight_number, fd.v, new_pilot_id, answer)))

----------------------------------------------------------------------------
(* queries_add.py: the add operations and assign_captain                   *)

\* the outcome of an add operation's single INSERT ins and its commit
insert_and_commit(st, before, ins, done) ==
  IF ins.err # ""
  THEN Steps(before \o <<"INSERT">>, Outcome(st, IntegrityError, ins.err, "implicit", "none"))
  ELSE Steps(before \o <<"INSERT", "commit">>, Outcome(ins.db, "", done, "implicit", "commit"))

add_airport_body(st, code) ==
  insert_and_commit(st, <<>>, InsertAirport(st, code), "Airport added successfully")

add_airport(st, code) ==
  LET c == validate_airport_code(code)
  IN  except_conflict(
        IF ~c.ok
        THEN Outcome(st, ValidationError, "Airport code must be exactly 3 letters",
                     "none", "none")
        ELSE get_connection(st, add_airport_body(st, c.v)),
        "Airport already exists")

\* variant of assign_captain's with-block without the DELETE of the existing captain
assign_captain_body_no_delete(st, flight_id, pilot_id) ==
  IF ~(\E f \in st.Flight : f.flight_id = flight_id)
  THEN Steps(<<"SELECT">>, Outcome(st, ValidationError, "Flight ID not found", "none", "none"))
  ELSE
    LET bad == PilotCheck(st, pilot_id, Captain, "is not a Captain")
        w == InsertCrewAssignment(st, flight_id, pilot_id, Captain)
    IN  IF bad # ""
        THEN Steps(<<"SELECT", "SELECT">>, Outcome(st, ValidationError, bad, "none", "none"))
        ELSE IF w.err # ""
        THEN Steps(<<"SELECT", "SELECT", "INSERT">>,
                   Outcome(st, IntegrityError, w.err, "implicit", "none"))
        ELSE Steps(<<"SELECT", "SELECT", "INSERT", "commit">>,
                   Outcome(w.db, "", "Captain assigned to flight", "implicit", "commit"))

assign_captain_body(st, flight_id, pilot_id) ==
  IF ~(\E f \in st.Flight : f.flight_id = flight_id)
  THEN Steps(<<"SELECT">>, Outcome(st, ValidationError, "Flight ID not found", "none", "none"))
  ELSE
    LET bad == PilotCheck(st, pilot_id, Captain, "is not a Captain")
    IN  IF bad # ""
        THEN Steps(<<"SELECT", "SELECT">>, Outcome(st, ValidationError, bad, "none", "none"))
        ELSE
          LET w == ReassignCrew(st, flight_id, pilot_id, Captain)
          IN  IF w.err # ""
              THEN Steps(<<"SELECT", "SELECT", "DELETE", "INSERT">>,
                         Outcome(st, IntegrityError, w.err, "implicit", "none"))
              ELSE Steps(<<"SELECT", "SELECT", "DELETE", "INSERT", "commit">>,
                         Outcome(w.db, "", "Captain assigned to flight", "implicit", "commit"))

assign_captain(st, flight_id, pilot_id) ==
  except_conflict(get_connection(st, assign_captain_body(st, flight_id, pilot_id)),
                  "Assignment failed - pilot may already be assigned to this flight")

add_route_body(st, origin, dest, distance_km, flight_duration_mins) ==
  IF origin \notin st.Airport
  THEN Steps(<<"SELECT">>, Outcome(st, ValidationError, "Airport not found", "none", "none"))
  ELSE IF dest \notin st.Airport
  THEN Steps(<<"SELECT", "SELECT">>,
             Outcome(st, ValidationError, "Airport not found", "none", "none"))
  ELSE insert_and_commit(st, <<"SELECT", "SELECT">>,
                         InsertRoute(st, origin, dest, distance_km, flight_duration_mins),
                         "Route added successfully")

add_route(st, origin, dest, distance_km, flight_duration_mins) ==
  LET o == validate_airport_code(origin)
      d == validate_airport_code(dest)
      km == validate_positive_number(distance_km)
      mins == validate_positive_number(flight_duration_mins)
  IN  except_conflict(
        IF ~o.ok \/ ~d.ok
        THEN Outcome(st, ValidationError, "Airport code must be exactly 3 letters",
                     "none", "none")
        ELSE IF ~km.ok \/ ~mins.ok
        THEN Outcome(st, ValidationError, "must be positive", "none", "none")
        ELSE IF o.v = d.v
        THEN Outcome(st, ValidationError, "Origin and destination must be different",
                     "none", "none")
        ELSE get_connection(st, add_route_body(st, o.v, d.v, km.v, mins.v)),
        "Route already exists")

add_pilot_body(st, licence, name, rank) ==
  insert_and_commit(st, <<>>, InsertPilot(st, licence, name, rank),
                    "Pilot added successfully. Happy flying")

add_pilot(st, licence, name, rank, hire_date) ==
  LET r == validate_rank(rank)
      h == validate_date(hire_date)
      l == validate_licence_number(licence)
  IN  except_conflict(
        IF ~r.ok THEN Outcome(st, ValidationError, "Rank must be one of", "none", "none")
        ELSE IF ~h.ok
        THEN Outcome(st, ValidationError, "Invalid date format", "none", "none")
        ELSE IF ~l.ok
        THEN Outcome(st, ValidationError, "Licence number cannot be empty", "none", "none")
        ELSE get_connection(st, add_pilot_body(st, l.v, name, r.v)),
        "Licence already exists")

add_flight_body(st, flight_number, flight_date, route_id, sched_dep_utc, sched_arr_utc, status) ==
  IF ~(\E r \in st.Route : r.route_id = route_id)
  THEN Steps(<<"SELECT">>, Outcome(st, ValidationError, "Route ID not found", "none", "none"))
  ELSE
    LET sid == (CHOOSE s \in FlightStatus : s.status_name = status).status_id
    IN  insert_and_commit(st, <<"SELECT", "SELECT">>,
                          InsertFlight(st, flight_number, flight_date, route_id,
                                       sched_dep_utc, sched_arr_utc, sid),
                          "Flight added successfully")

add_flight(st, flight_number, flight_date, route_id, sched_dep_utc, sched_arr_utc, status) ==
  LET fd  == validate_date(flight_date)
      dep == validate_datetime(sched_dep_utc)
      arr == validate_datetime(sched_arr_utc)
      s   == validate_flight_status(status)
      n   == validate_flight_number(flight_number)
  IN  except_conflict(
        IF ~fd.ok THEN Outcome(st, ValidationError, "Invalid date format", "none", "none")
        ELSE IF ~dep.ok \/ ~arr.ok
        THEN Outcome(st, ValidationError, "Invalid datetime format", "none", "none")
        ELSE IF ~s.ok THEN Outcome(st, ValidationError, "Invalid status", "none", "none")
        ELSE IF ~n.ok
        THEN Outcome(st, ValidationError, "Flight number cannot be empty", "none", "none")
        ELSE IF StrGE(dep.v, arr.v)
        THEN Outcome(st, ValidationError, "Departure time must be before arrival time!",
                     "none", "none")
        ELSE get_connection(st, add_flight_body(st, n.v, fd.v, route_id, dep.v, arr.v, s.v)),
        "Flight already exists")

----------------------------------------------------------------------------
(* The state machine.  db is the committed store, pre the committed store *)
(* before the last call, last the last call: its arguments as typed and   *)
(* its outcome.  An operation is called from the menu (last is NoCall);   *)
(* every call action is one whole call of an operation, and MainMenu is   *)
(* main_menu's loop showing the menu again after the operation returned.  *)

NoText == <<>>

NoCall ==
  [op |-> "none", flight_number |-> NoText, flight_date |-> NoText,
   a1 |-> NoText, a2 |-> NoText, pilot_id |-> 0, flight_id |-> 0, n1 |-> 0, n2 |-> 0,
   answer |-> NoText,
   exc |-> "", msg |-> "", begin |-> "none", end |-> "none", raised |-> "",
   steps |-> <<>>, conn |-> "none", preview |-> NoPreview, report |-> "",
   exited |-> FALSE]

\* main.py main, the except clauses around main_menu(): what is printed for the
\* exception that left main_menu
main_except(raised) ==
  IF raised = "" THEN ""
  ELSE IF raised = KeyboardInterrupt THEN "Goodbye"
  ELSE "ERROR"

\* variant of main_menu_except without the except KeyboardInterrupt clause
main_menu_except_exception_only(raised) ==
  IF raised = "" THEN [exited |-> FALSE, report |-> ""]
  ELSE IF raised = KeyboardInterrupt
  THEN [exited |-> TRUE, report |-> main_except(raised)]
  ELSE [exited |-> FALSE, report |-> "An unexpected error occurred"]

\* ui.py main_menu, the except clauses around a menu choice: what is printed for
\* the exception that left the choice's handler, and whether the loop is left
\* (every exception the program raises is a KeyboardInterrupt or an Exception)
main_menu_except(raised) ==
  IF raised = "" THEN [exited |-> FALSE, report |-> ""]
  ELSE IF raised = KeyboardInterrupt
  THEN [exited |-> FALSE, report |-> "Operation cancelled..."]
  ELSE [exited |-> FALSE, report |-> "An unexpected error occurred"]

\* bounds on the rows the add operations and change_route may add to the seed
MaxNewRoutes == 1
MaxNewFlights == 1
MaxNewPilots == 1
MaxNewAirports == 1

WithinBounds(st) ==
  /\ Cardinality(st.Route) <= Cardinality(SeedRoute) + MaxNewRoutes
  /\ Cardinality(st.Flight) <= Cardinality(SeedFlight) + MaxNewFlights
  /\ Cardinality(st.Pilot) <= Cardinality(SeedPilot) + MaxNewPilots
  /\ Cardinality(st.Airport) <= Cardinality(SeedAirport) + MaxNewAirports

\* one call: c holds the operation's name and arguments, r is its outcome
Call(c, r) ==
  /\ last.op = "none"
  /\ WithinBounds(r.db)
  /\ db' = r.db
  /\ pre' = db
  /\ last' = [c EXCEPT !.exc = r.exc, !.msg = r.msg, !.begin = r.begin,
                       !.end = r.end, !.raised = r.raised, !.steps = r.steps,
                       !.conn = r.conn, !.preview = r.preview,
                       !.report = main_menu_except(r.raised).report,
                       !.exited = main_menu_except(r.raised).exited]

Init ==
  /\ db = Seed
  /\ pre = Seed
  /\ last = NoCall

\* ui.py main_menu: the next turn of the while loop
MainMenu ==
  /\ last.op # "none"
  /\ ~last.exited
  /\ last' = NoCall
  /\ pre' = db
  /\ UNCHANGED db

\* ui.py main_menu: the line typed at "Select option (0-4): " is 0, or input()
\* raises there, outside the loop's try; the exception leaves main_menu and is
\* caught by main
MainMenuPrompt(Choices) ==
  \E choice \in Choices :
    /\ last.op = "none"
    /\ choice = <<"0">> \/ input_raises(choice) # ""
    /\ last' = [NoCall EXCEPT !.op = "main_menu", !.answer = choice,
                              !.exc = input_raises(choice),
                              !.report = IF choice = <<"0">> THEN "Have a great day"
                                         ELSE main_except(input_raises(choice)),
                              !.exited = TRUE]
    /\ pre' = db
    /\ UNCHANGED db

\* ui.py menu_modify_flight, menu_add_data, ...: input() raises at a prompt of a
\* submenu, before an operation is called; the exception leaves the submenu
\* inside main_menu's try
SubmenuPrompt(Lines) ==
  \E line \in Lines :
    /\ last.op = "none"
    /\ input_raises(line) # ""
    /\ last' = [NoCall EXCEPT !.op = "submenu", !.answer = line,
                              !.exc = input_raises(line), !.raised = input_raises(line),
                              !.report = main_menu_except(input_raises(line)).report,
                              !.exited = main_menu_except(input_raises(line)).exited]
    /\ pre' = db
    /\ UNCHANGED db

\* ui.py menu_modify_flight, choice 3
ChangeRoute(Keys, Codes, Answers) ==
  \E k \in Keys, o \in Codes, d \in Codes, ans \in Answers :
    Call([NoCall EXCEPT !.op = "change_route", !.flight_number = k.num,
                        !.flight_date = k.date, !.a1 = o, !.a2 = d, !.answer = ans],
         change_route(db, k.num, k.date, o, d, ans))

\* ui.py menu_modify_flight, choice 1
ChangeTimes(Keys, Times, Answers) ==
  \E k \in Keys, dep \in Times, arr \in Times, ans \in Answers :
    Call([NoCall EXCEPT !.op = "change_times", !.flight_number = k.num,
                        !.flight_date = k.date, !.a1 = dep, !.a2 = arr, !.answer = ans],
         change_times(db, k.num, k.date, dep, arr, ans))

\* ui.py menu_modify_flight, choice 2
ChangeStatus(Keys, Statuses, Answers) ==
  \E k \in Keys, s \in Statuses, ans \in Answers :
    Call([NoCall EXCEPT !.op = "change_status", !.flight_number = k.num,
                        !.flight_date = k.date, !.a1 = s, !.answer = ans],
         change_status(db, k.num, k.date, s, ans))

\* ui.py menu_modify_flight, choice 4
ChangeCaptain(Keys, PilotIds, Answers) ==
  \E k \in Keys, p \in PilotIds, ans \in Answers :
    Call([NoCall EXCEPT !.op = "change_captain", !.flight_number = k.num,
                        !.flight_date = k.date, !.pilot_id = p, !.answer = ans],
         change_captain(db, k.num, k.date, p, ans))

\* ui.py menu_modify_flight, choice 5
ChangeFirstOfficer(Keys, PilotIds, Answers) ==
  \E k \in Keys, p \in PilotIds, ans \in Answers :
    Call([NoCall EXCEPT !.op = "change_first_officer", !.flight_number = k.num,
                        !.flight_date = k.date, !.pilot_id = p, !.answer = ans],
         change_first_officer(db, k.num, k.date, p, ans))

\* ui.py menu_add_data, choice 5
AssignCaptain(FlightIds, PilotIds) ==
  \E f \in FlightIds, p \in PilotIds :
    Call([NoCall EXCEPT !.op = "assign_captain", !.flight_id = f, !.pilot_id = p],
         assign_captain(db, f, p))

\* ui.py menu_add_data, choice 1
AddAirport(Codes) ==
  \E code \in Codes :
    Call([NoCall EXCEPT !.op = "add_airport", !.a1 = code], add_airport(db, code))

\* ui.py menu_add_data, choice 2
AddRoute(Codes, Distances, Durations) ==
  \E o \in Codes, d \in Codes, km \in Distances, mins \in Durations :
    Call([NoCall EXCEPT !.op = "add_route", !.a1 = o, !.a2 = d, !.n1 = km, !.n2 = mins],
         add_route(db, o, d, km, mins))

\* ui.py menu_add_data, choice 3
AddPilot(Licences, Ranks, Dates) ==
  \E l \in Licences, rk \in Ranks, h \in Dates :
    Call([NoCall EXCEPT !.op = "add_pilot", !.flight_number = l, !.a1 = rk,
                        !.flight_date = h],
         add_pilot(db, l, "New Pilot", rk, h))

\* ui.py menu_add_data, choice 4
AddFlight(Keys, RouteIds, Times, Statuses) ==
  \E k \in Keys, rid \in RouteIds, dep \in Times, arr \in Times, s \in Statuses :
    Call([NoCall EXCEPT !.op = "add_flight", !.flight_number = k.num,
                        !.flight_date = k.date, !.n1 = rid, !.a1 = dep, !.a2 = arr,
                        !.answer = s],
         add_flight(db, k.num, k.date, rid, dep, arr, s))

----------------------------------------------------------------------------
(* Inputs.  Arguments are what ui.py's safe_input can pass (stripped, not *)
(* empty); the confirmation answer is the raw line.                       *)

Text2099 == <<"2","0","9","9","-","0","1","-","0","1">>

\* BA101 on 2025-06-05 (seeded), typed in lower case
KeyBA101 == [num |-> <<"b","a","1","0","1">>, date |-> Jun(<<"0","5">>)]
\* BA101 on 2025-06-05 as the seed spells it
KeySeed == [num |-> BA(<<"1","0","1">>), date |-> Jun(<<"0","5">>)]
\* BA102 on 2025-06-06 (seeded)
KeyBA102 == [num |-> BA(<<"1","0","2">>), date |-> Jun(<<"0","6">>)]
\* BA999 on 2099-01-01 (not seeded)
KeyBA999 == [num |-> BA(<<"9","9","9">>), date |-> Text2099]
\* BA101 with a date that is not YYYY-MM-DD
KeyBadDate == [num |-> BA(<<"1","0","1">>), date |-> <<"0","5","/","0","6","/","2","0","2","5">>]
\* BA101 on 2025-6-5: the date passes validate_date and equals no stored flight_date
KeyUnpadded == [num |-> BA(<<"1","0","1">>), date |-> <<"2","0","2","5","-","6","-","5">>]
\* BA201 on 2025-06-05: stored only after add_flight
KeyBA201 == [num |-> BA(<<"2","0","1">>), date |-> Jun(<<"0","5">>)]

T0800 == At(Jun(<<"0","5">>), <<"0","8",":","0","0">>)
T1000 == At(Jun(<<"0","5">>), <<"1","0",":","0","0">>)
\* accepted by validate_datetime: %H matches one digit
T900 == At(Jun(<<"0","5">>), <<"9",":","0","0">>)
\* accepted by validate_datetime: the format's space matches two spaces
T0930 == Jun(<<"0","5">>) \o <<" "," ","0","9",":","3","0">>
\* rejected by validate_datetime
TNoDate == <<"0","8",":","0","0">>

Yes == <<"y">>
YesPadded == <<" ","Y"," ">>
No == <<"n">>
YesWord == <<"y","e","s">>

LHR == <<"l","h","r">>
JFK == <<"J","F","K">>
ZZZ == <<"Z","Z","Z">>
LH1 == <<"L","H","1">>

DelayedTyped == <<"d","e","l","a","y","e","d">>
Bogus == <<"b","o","g","u","s">>

\* the six mutation operations of queries.py and queries_add.py on one seeded
\* flight, a flight that is not stored and a malformed date
Next ==
  \/ ChangeRoute({KeyBA101, KeyBA999, KeyBadDate}, {LHR, JFK, ZZZ, LH1}, {Yes, No})
  \/ ChangeTimes({KeyBA101, KeyBA999, KeyBadDate}, {T0800, T1000, TNoDate}, {Yes, No})
  \/ ChangeStatus({KeyBA101, KeyBA999, KeyBadDate}, {DelayedTyped, Bogus}, {Yes, No})
  \/ ChangeCaptain({KeyBA101, KeyBA999, KeyBadDate}, {7, 3, 99}, {Yes, No})
  \/ ChangeFirstOfficer({KeyBA101, KeyBA999, KeyBadDate}, {4, 7, 99}, {Yes, No})
  \/ AssignCaptain({1, 99}, {2, 3, 99})
  \/ MainMenu

Spec == Init /\ [][Next]_vars

\* add_flight and change_times, with timestamps validate_datetime accepts in
\* several spellings
NextTimes ==
  \/ AddFlight({KeyBA201}, {1, 99}, {T0800, T1000, T900, T0930, TNoDate},
               {<<"s","c","h","e","d","u","l","e","d">>})
  \/ ChangeTimes({KeyBA101, KeyBA201}, {T0800, T1000, T900, T0930, TNoDate},
                 {Yes, No})
  \/ MainMenu

SpecTimes == Init /\ [][NextTimes]_vars

\* the crew operations and add_pilot
NextCrew ==
  \/ AssignCaptain({1, 2, 99}, {1, 7, 3, 16, 99})
  \/ ChangeCaptain({KeyBA101, KeyBA102, KeyBA999}, {1, 7, 3, 16, 99}, {Yes, YesPadded, No})
  \/ ChangeFirstOfficer({KeyBA101, KeyBA102, KeyBA999}, {3, 4, 7, 16, 99},
                        {Yes, YesPadded, No})
  \/ AddPilot({Lic(<<"2","0","0","0">>), <<"l","i","c","1","0","0","1">>},
              {<<"c","a","p","t","a","i","n">>,
               <<"f","i","r","s","t"," ","o","f","f","i","c","e","r">>,
               <<"p","i","l","o","t">>},
              {Jun(<<"0","1">>)})
  \/ MainMenu

SpecCrew == Init /\ [][NextCrew]_vars

\* change_captain alone: every store but the seed's is the result of reassignments
NextCaptain ==
  \/ ChangeCaptain({KeySeed, KeyBA102, KeyBA999}, {1, 2, 7, 3, 99}, {Yes, YesPadded, No})
  \/ MainMenu

SpecCaptain == Init /\ [][NextCaptain]_vars

\* the add operations, assign_captain and change_route, with new and with already
\* stored keys
NextAdd ==
  \/ AddAirport({LHR, ZZZ, LH1})
  \/ AddRoute({LHR, JFK, ZZZ}, {100}, {60})
  \/ AddPilot({Lic(<<"2","0","0","0">>), <<"l","i","c","1","0","0","1">>},
              {<<"c","a","p","t","a","i","n">>}, {Jun(<<"0","1">>)})
  \/ AddFlight({KeySeed, KeyBA201}, {1, 99}, {T0800, T1000},
               {<<"s","c","h","e","d","u","l","e","d">>})
  \/ AssignCaptain({1, 99}, {2, 3, 16})
  \/ ChangeRoute({KeySeed}, {JFK, ZZZ}, {Yes, No})
  \/ MainMenu

SpecAdd == Init /\ [][NextAdd]_vars

\* add_route and change_route
NextRoute ==
  \/ AddRoute({LHR, JFK, ZZZ, LH1}, {0, 100}, {60})
  \/ ChangeRoute({KeyBA101, KeyBA102, KeyBA999}, {LHR, JFK, ZZZ, LH1}, {Yes, YesWord, No})
  \/ MainMenu

SpecRoute == Init /\ [][NextRoute]_vars

\* validate_airport_code on its own: the texts of up to MaxCodeLen characters
\* over CodeChars, each validated once and, when accepted, validated again
MaxCodeLen == 4
CodeChars == {"l", "h", "r", "L", "H", "1", " "}
CodeTexts == UNION { [1..n -> CodeChars] : n \in 0..MaxCodeLen }

InitCode ==
  /\ db = Seed
  /\ pre = Seed
  /\ \E code \in CodeTexts : last = [NoCall EXCEPT !.op = "typed", !.a1 = code]

\* validate_airport_code(code) on the text typed: a2 is the value returned
ValidateCode ==
  /\ last.op = "typed"
  /\ LET c == validate_airport_code(last.a1)
     IN  last' = [last EXCEPT !.op = "validate_airport_code",
                              !.exc = IF c.ok THEN "" ELSE ValidationError,
                              !.raised = IF c.ok THEN "" ELSE ValidationError,
                              !.a2 = IF c.ok THEN c.v ELSE NoText]
  /\ UNCHANGED <<db, pre>>

\* validate_airport_code on the value it returned: a1 is that value, a2 the new result
ValidateAgain ==
  /\ last.op = "validate_airport_code"
  /\ last.exc = ""
  /\ LET c == validate_airport_code(last.a2)
     IN  last' = [last EXCEPT !.op = "validated_again", !.a1 = last.a2,
                              !.exc = IF c.ok THEN "" ELSE ValidationError,
                              !.raised = IF c.ok THEN "" ELSE ValidationError,
                              !.a2 = IF c.ok THEN c.v ELSE NoText]
  /\ UNCHANGED <<db, pre>>

NextCode == ValidateCode \/ ValidateAgain

SpecCode == InitCode /\ [][NextCode]_vars

\* a session: change operations whose confirmation prompt may be interrupted or
\* at end of input, two operations without a prompt, the prompts of the menus
\* interrupted or at end of input, and leaving the program
NextSession ==
  \/ ChangeStatus({KeySeed, KeyBA999}, {DelayedTyped, Bogus}, {Yes, No, CtrlC, CtrlD})
  \/ ChangeCaptain({KeySeed, KeyBA102}, {2, 7, 3}, {Yes, No, CtrlC, CtrlD})
  \/ ChangeRoute({KeySeed}, {JFK, ZZZ}, {Yes, No, CtrlC, CtrlD})
  \/ ChangeTimes({KeySeed}, {T0800, T1000}, {Yes, CtrlC})
  \/ ChangeFirstOfficer({KeySeed}, {4}, {Yes, CtrlC})
  \/ AddAirport({LHR, ZZZ})
  \/ AssignCaptain({1, 99}, {2, 3})
  \/ SubmenuPrompt({CtrlC, CtrlD})
  \/ MainMenuPrompt({<<"0">>, CtrlC, CtrlD})
  \/ MainMenu

SpecSession == Init /\ [][NextSession]_vars

\* the five change operations on stored flights, with answers confirm_action
\* accepts and answers it does not
NextConfirm ==
  \/ ChangeRoute({KeySeed, KeyBA999}, {LHR, JFK}, {Yes, YesPadded, YesWord, No, NoText})
  \/ ChangeTimes({KeySeed, KeyBA999}, {T0800, T1000}, {Yes, YesPadded, YesWord, No, NoText})
  \/ ChangeStatus({KeySeed, KeyBA999}, {DelayedTyped}, {Yes, YesPadded, YesWord, No, NoText})
  \/ ChangeCaptain({KeySeed, KeyBA999}, {2, 3}, {Yes, YesPadded, YesWord, No, NoText})
  \/ ChangeFirstOfficer({KeySeed, KeyBA999}, {4, 2}, {Yes, YesPadded, YesWord, No, NoText})
  \/ MainMenu

SpecConfirm == Init /\ [][NextConfirm]_vars

\* change_status with status names in several spellings, on stored flights and
\* on one that is not stored
NextStatus ==
  \/ ChangeStatus({KeySeed, KeyBA102, KeyBA999, KeyBadDate},
                  {DelayedTyped, <<"D","E","L","A","Y","E","D">>, <<"b","o","a","r","d","i","n","g">>,
                   Cancelled, <<"d","e","l","a","y">>, Bogus},
                  {Yes, YesPadded, No})
  \/ MainMenu

SpecStatus == Init /\ [][NextStatus]_vars

----------------------------------------------------------------------------
(* Properties.  In the state after a call, pre is the store at the call,  *)
(* db the store after it and last the call.                               *)

\* the five change operations of queries.py
ChangeOps ==
  {"change_route", "change_times", "change_status", "change_captain",
   "change_first_officer"}

\* the flights of store st the last call addresses by flight number and date
Addressed(st) ==
  { f \in st.Flight : /\ f.flight_number = validate_flight_number(last.flight_number).v
                      /\ f.flight_date = last.flight_date }

\* the CrewAssignment rows of store st for flight f
CrewOf(st, f) == { c \in st.CrewAssignment : c.flight_id = f.flight_id }

\* the pilot the last call names is stored in pre with the given rank
PilotHasRank(rank) ==
  \E p \in pre.Pilot : p.pilot_id = last.pilot_id /\ p.rank = rank

\* C1: after change_route, change_times, change_status, change_captain or
\* change_first_officer with a declined confirmation, the Route table, the
\* addressed flight's Flight row and its CrewAssignment rows are what they
\* were before the call, and so is the whole store.
C1_DeclineLeavesStore ==
  (last.op \in ChangeOps /\ ~confirm_action(last.answer)) =>
    /\ db.Route = pre.Route
    /\ \A f \in Addressed(pre) : f \in db.Flight /\ CrewOf(db, f) = CrewOf(pre, f)
    /\ Addressed(db) = Addressed(pre)
    /\ db = pre

\* C1: the confirmation prompt of change_captain was reached for a stored flight
\* and a Captain, and the operator declined
C1_Declined ==
  /\ last.op = "change_captain"
  /\ ~confirm_action(last.answer)
  /\ Addressed(pre) # {}
  /\ PilotHasRank(Captain)
  /\ last.msg = "Captain change cancelled."
  /\ last.end = "rollback"

\* C2: every stored flight's scheduled arrival is chronologically strictly
\* later than its scheduled departure (the two texts read as
\* '%Y-%m-%d %H:%M' instants), in every state add_flight and change_times reach.
C2_ArrivalAfterDeparture ==
  \A f \in db.Flight :
    LET dep == strptime_datetime(f.sched_dep_utc)
        arr == strptime_datetime(f.sched_arr_utc)
    IN  dep.ok /\ arr.ok /\ InstantLess(dep.v, arr.v)

\* C3: a confirmed change_times of a stored flight with two timestamps that
\* validate_datetime accepts succeeds and stores both texts exactly when the
\* departure is chronologically before the arrival, and otherwise reports a
\* validation failure before any transaction is opened and leaves the store.
C3_ChangeTimesByInstant ==
  (/\ last.op = "change_times"
   /\ confirm_action(last.answer)
   /\ Addressed(pre) # {}
   /\ validate_datetime(last.a1).ok
   /\ validate_datetime(last.a2).ok) =>
    IF InstantLess(strptime_datetime(last.a1).v, strptime_datetime(last.a2).v)
    THEN /\ last.exc = ""
         /\ \A f \in Addressed(pre) :
              \E g \in db.Flight : /\ g.flight_id = f.flight_id
                                   /\ g.sched_dep_utc = last.a1
                                   /\ g.sched_arr_utc = last.a2
    ELSE /\ last.exc = ValidationError
         /\ last.begin = "none"
         /\ db = pre

\* C4: each flight has at most one CrewAssignment row with role Captain and
\* at most one with role First Officer.
C4_OneRowPerRole ==
  \A f \in db.Flight : \A role \in {Captain, FirstOfficer} :
    Cardinality({ c \in CrewOf(db, f) : c.role = role }) <= 1

\* C4: a crew operation has replaced the assignment of a flight that had one
C4_Reassigned ==
  /\ last.op \in {"assign_captain", "change_captain", "change_first_officer"}
  /\ last.exc = ""
  /\ db.CrewAssignment # pre.CrewAssignment
  /\ Cardinality(db.CrewAssignment) = Cardinality(pre.CrewAssignment)

\* C5: after a confirmed change_captain of a stored flight to a pilot of rank
\* Captain, whatever reassignments came before, the flight has exactly one
\* Captain row and it names that pilot; from the seed, BA101 on 2025-06-05 to
\* pilot 7 leaves one Captain row with pilot 7 and no row with pilot 1.
C5_LastCaptainOnly ==
  (/\ last.op = "change_captain"
   /\ confirm_action(last.answer)
   /\ Addressed(pre) # {}
   /\ PilotHasRank(Captain)) =>
    /\ \A f \in Addressed(pre) :
         { c \in CrewOf(db, f) : c.role = Captain }
           = {CrewRow(f.flight_id, last.pilot_id, Captain)}
    /\ (pre = Seed /\ [num |-> last.flight_number, date |-> last.flight_date] = KeySeed
        /\ last.pilot_id = 7) =>
         /\ { c \in db.CrewAssignment : c.flight_id = 1 /\ c.role = Captain }
              = {CrewRow(1, 7, Captain)}
         /\ ~(\E c \in db.CrewAssignment : c.flight_id = 1 /\ c.pilot_id = 1)

\* C5: the second of two successive confirmed reassignments of BA101's captain:
\* the store at the call already names a captain other than the seed's, and
\* the call names yet another
C5_SecondReassignment ==
  /\ last.op = "change_captain"
  /\ confirm_action(last.answer)
  /\ last.exc = ""
  /\ \E f \in Addressed(pre) : f.flight_id = 1
  /\ \E c \in pre.CrewAssignment :
       c.flight_id = 1 /\ c.role = Captain /\ c.pilot_id \notin {1, last.pilot_id}
  /\ CrewRow(1, last.pilot_id, Captain) \in db.CrewAssignment

\* C6: every CrewAssignment row with role Captain names a pilot of rank
\* Captain, and every row with role First Officer a pilot of rank First Officer.
C6_RoleMatchesRank ==
  \A c \in db.CrewAssignment :
    \E p \in db.Pilot : p.pilot_id = c.pilot_id /\ p.rank = c.role

\* C6: a pilot added by add_pilot has been assigned to a flight
C6_AddedPilotAssigned ==
  /\ last.op \in {"assign_captain", "change_captain", "change_first_officer"}
  /\ last.exc = ""
  /\ last.pilot_id \notin { p.pilot_id : p \in SeedPilot }
  /\ \E c \in db.CrewAssignment : c.pilot_id = last.pilot_id /\ c \notin pre.CrewAssignment

\* the last call is a confirmed change_route of a stored flight whose two airport
\* codes and flight date pass validation
ConfirmedChangeRoute ==
  /\ last.op = "change_route"
  /\ confirm_action(last.answer)
  /\ Addressed(pre) # {}
  /\ validate_airport_code(last.a1).ok
  /\ validate_airport_code(last.a2).ok
  /\ validate_date(last.flight_date).ok

\* the Route rows of store st for the pair of codes the last call names
RoutesOfPair(st) ==
  { r \in st.Route : /\ r.origin_code = validate_airport_code(last.a1).v
                     /\ r.dest_code = validate_airport_code(last.a2).v }

\* every flight the last call addresses has route_id rid in db
RouteIdIs(rid) ==
  \A f \in Addressed(pre) :
    \E g \in db.Flight : g.flight_id = f.flight_id /\ g.route_id = rid

\* the call created exactly one Route row, with distance 0 and duration 0, for
\* the pair it names, and the flight refers to it
OneRouteCreated ==
  \E r \in db.Route \ pre.Route :
    /\ db.Route = pre.Route \cup {r}
    /\ r \in RoutesOfPair(db)
    /\ r.distance_km = 0 /\ r.flight_duration_mins = 0
    /\ RouteIdIs(r.route_id)

\* the call created no Route row and the flight refers to the pair's stored row
RouteReused ==
  /\ db.Route = pre.Route
  /\ \A r \in RoutesOfPair(pre) : RouteIdIs(r.route_id)

\* C7 as stated: a confirmed change_route to a pair with no Route row creates
\* exactly one Route row (0, 0) and points the flight at it; to a pair with a
\* Route row it creates none and points the flight at the stored row.
C7_RouteCreatedOrReused ==
  ConfirmedChangeRoute =>
    IF RoutesOfPair(pre) = {} THEN OneRouteCreated ELSE RouteReused

\* C7 amended: the pair with no Route row must be a pair of stored airports;
\* when one of the two codes is no stored airport the operation reports a
\* database error and the store is what it was.
C7_RouteCreatedForStoredAirports ==
  ConfirmedChangeRoute =>
    IF RoutesOfPair(pre) # {} THEN RouteReused
    ELSE IF /\ validate_airport_code(last.a1).v \in pre.Airport
            /\ validate_airport_code(last.a2).v \in pre.Airport
    THEN OneRouteCreated
    ELSE last.exc = DatabaseError /\ last.raised = "" /\ db = pre

\* C7: a confirmed change_route has created a Route row for a pair that had none
C7_Created ==
  /\ ConfirmedChangeRoute
  /\ RoutesOfPair(pre) = {}
  /\ last.exc = ""
  /\ Cardinality(db.Route) = Cardinality(pre.Route) + 1

\* C8: no two Route rows share the same (origin_code, dest_code) pair.
C8_RoutePairUnique ==
  \A r1 \in db.Route : \A r2 \in db.Route :
    (r1.origin_code = r2.origin_code /\ r1.dest_code = r2.dest_code) => r1 = r2

\* C8: add_route was called for a pair whose Route row change_route created
C8_AddAfterCreate ==
  /\ last.op = "add_route"
  /\ last.exc = DatabaseError
  /\ \E r \in db.Route \ SeedRoute :
       /\ r.origin_code = validate_airport_code(last.a1).v
       /\ r.dest_code = validate_airport_code(last.a2).v

\* the last call is a change operation naming a (flight number, date) pair that
\* matches no stored flight
MissingFlight == last.op \in ChangeOps /\ Addressed(pre) = {}

\* every argument of the last call but its flight number passes the validation
\* the operation runs before it loads the flight
OtherArgumentsPass ==
  /\ validate_date(last.flight_date).ok
  /\ last.op = "change_route" =>
       validate_airport_code(last.a1).ok /\ validate_airport_code(last.a2).ok
  /\ last.op = "change_times" =>
       /\ validate_datetime(last.a1).ok /\ validate_datetime(last.a2).ok
       /\ StrLess(last.a1, last.a2)
  /\ last.op = "change_status" => validate_flight_status(last.a1).ok
  /\ last.op = "change_captain" => PilotHasRank(Captain)
  /\ last.op = "change_first_officer" => PilotHasRank(FirstOfficer)

\* C9 as stated: every change operation addressing a flight that is not stored
\* reports the not-found ValidationError and changes nothing.
C9_MissingFlightNotFound ==
  MissingFlight =>
    /\ last.exc = ValidationError
    /\ last.msg = "No flight found"
    /\ last.raised = ""
    /\ db = pre

\* C9 amended: a change operation addressing a flight that is not stored reports
\* a ValidationError, never a DatabaseError, and changes nothing; the failure is
\* the not-found one when the other arguments pass the validation that comes
\* before the lookup, and that earlier validation failure otherwise.
C9_MissingFlightValidationError ==
  MissingFlight =>
    /\ last.exc = ValidationError
    /\ last.raised = ""
    /\ db = pre
    /\ OtherArgumentsPass <=> last.msg = "No flight found"

\* C9: change_times loaded BA999 on 2099-01-01 after BEGIN and found no flight
C9_NotFoundAfterBegin ==
  /\ MissingFlight
  /\ last.op = "change_times"
  /\ last.flight_date = Text2099
  /\ last.msg = "No flight found"
  /\ last.begin = "BEGIN"

\* the last call's arguments are invalid in one of the ways that do not depend on
\* the order of two timestamps: a malformed date, time, airport code or status,
\* a pilot or flight that is not stored, a rank that does not match the role
InvalidArguments ==
  \/ /\ last.op \in ChangeOps
     /\ \/ ~validate_date(last.flight_date).ok
        \/ Addressed(pre) = {}
        \/ /\ last.op = "change_route"
           /\ ~(validate_airport_code(last.a1).ok /\ validate_airport_code(last.a2).ok)
        \/ /\ last.op = "change_times"
           /\ ~(validate_datetime(last.a1).ok /\ validate_datetime(last.a2).ok)
        \/ last.op = "change_status" /\ ~validate_flight_status(last.a1).ok
        \/ last.op = "change_captain" /\ ~PilotHasRank(Captain)
        \/ last.op = "change_first_officer" /\ ~PilotHasRank(FirstOfficer)
  \/ /\ last.op = "assign_captain"
     /\ \/ ~(\E f \in pre.Flight : f.flight_id = last.flight_id)
        \/ ~PilotHasRank(Captain)

DuplicateWrite ==
  \/ /\ last.op = "add_airport"
     /\ validate_airport_code(last.a1).ok
     /\ validate_airport_code(last.a1).v \in pre.Airport
  \/ /\ last.op = "add_route"
     /\ validate_airport_code(last.a1).ok /\ validate_airport_code(last.a2).ok
     /\ validate_airport_code(last.a1).v # validate_airport_code(last.a2).v
     /\ last.n1 > 0 /\ last.n2 > 0
     /\ RoutesOfPair(pre) # {}
  \/ /\ last.op = "add_pilot"
     /\ validate_rank(last.a1).ok /\ validate_date(last.flight_date).ok
     /\ \E p \in pre.Pilot : p.licence_no = validate_licence_number(last.flight_number).v
  \/ /\ last.op = "add_flight"
     /\ validate_datetime(last.a1).ok /\ validate_datetime(last.a2).ok
     /\ StrLess(last.a1, last.a2)
     /\ validate_flight_status(last.answer).ok
     /\ \E r \in pre.Route : r.route_id = last.n1
     /\ Addressed(pre) # {}

\* the conflict message of each add operation's except sqlite3.IntegrityError clause
ConflictMessage ==
  [add_airport |-> "Airport already exists", add_route |-> "Route already exists",
   add_pilot |-> "Licence already exists", add_flight |-> "Flight already exists"]

\* C11: an add operation whose write violates a uniqueness constraint reports
\* its own conflict message, not the generic 'Database Error: ...' message.
C11_ConflictMessageReported ==
  DuplicateWrite => last.msg = ConflictMessage[last.op]

\* the last call is a confirmed change_route of a stored flight to a pair of codes
\* with no Route row and an airport that is not stored: its INSERT INTO Route
\* violates the foreign key
ForeignKeyWrite ==
  /\ ConfirmedChangeRoute
  /\ RoutesOfPair(pre) = {}
  /\ \/ validate_airport_code(last.a1).v \notin pre.Airport
     \/ validate_airport_code(last.a2).v \notin pre.Airport

\* the text s starts with the text p
StartsWith(s, p) == Len(s) >= Len(p) /\ SubSeq(s, 1, Len(p)) = p

\* C12: when a statement fails inside a get_connection scope (a duplicate key of an
\* add operation, a foreign key of change_route), the transaction is rolled back
\* before the connection is closed, the failure leaves the scope as DatabaseError,
\* the operation prints its message and returns, and the store is unchanged; no
\* sqlite3 exception leaves a scope.
C12_StorageFailureRolledBack ==
  /\ last.exc # IntegrityError
  /\ (DuplicateWrite \/ ForeignKeyWrite) =>
       /\ last.exc = DatabaseError
       /\ last.end = "rollback"
       /\ Len(last.steps) >= 3
       /\ SubSeq(last.steps, Len(last.steps) - 1, Len(last.steps)) = <<"rollback", "close">>
       /\ last.steps[Len(last.steps) - 2] = "INSERT"
       /\ last.conn = "closed"
       /\ last.msg # "" /\ last.raised = "" /\ last.report = ""
       /\ db = pre

\* a change_route whose INSERT INTO Route failed on the foreign key
C12_ForeignKeyFailure == ForeignKeyWrite /\ last.exc = DatabaseError /\ db = pre

\* C13: flight_id is never shown to or asked from the operator: neither section of
\* a preview prints it, and no operation the menus offer is called with a flight
\* identifier typed by the operator.
C13_FlightIdNotExposed ==
  /\ "flight_id" \notin last.preview.current \cup last.preview.proposed
  /\ last.op # "assign_captain"

\* text t is three letters at positions i..i+2 with only spaces around them
ThreeLettersAt(t, i) ==
  /\ i + 2 <= Len(t)
  /\ \A j \in 1..Len(t) : IF j \in i..(i + 2) THEN IsLetter(t[j]) ELSE t[j] = " "

\* C14: validate_airport_code accepts a text exactly when, spaces around it apart,
\* it is three letters, and then returns these letters in upper case; 'lhr' gives
\* 'LHR', 'LH' and 'LH1' are rejected; an accepted result validates to itself.
C14_AirportCodeValidation ==
  /\ last.op = "validate_airport_code" =>
       /\ last.exc = "" <=> \E i \in 1..Len(last.a1) : ThreeLettersAt(last.a1, i)
       /\ last.exc # "" => last.exc = ValidationError
       /\ \A i \in 1..Len(last.a1) : ThreeLettersAt(last.a1, i) =>
            last.a2 = <<upperChar(last.a1[i]), upperChar(last.a1[i + 1]),
                        upperChar(last.a1[i + 2])>>
       /\ last.a1 = <<"l", "h", "r">> => last.exc = "" /\ last.a2 = <<"L", "H", "R">>
       /\ last.a1 \in {<<"L", "H">>, <<"L", "H", "1">>} => last.exc = ValidationError
  /\ last.op = "validated_again" => last.exc = "" /\ last.a2 = last.a1

\* a lower-case code typed after a space was accepted as 'LHR'
C14_PaddedCodeAccepted ==
  /\ last.op = "validate_airport_code"
  /\ last.a1 = <<" ", "l", "h", "r">>
  /\ last.a2 = <<"L", "H", "R">>

\* an exception left the handler of the last menu choice
ChoiceRaised == last.op \notin {"none", "main_menu"} /\ last.raised # ""

\* C15 as stated: an exception other than an interrupt that leaves the handling
\* of a menu choice is reported and the session goes on; an operator interrupt
\* ends the program with main's farewell.
C15_InterruptExitsProgram ==
  /\ ChoiceRaised /\ last.raised # KeyboardInterrupt =>
       last.report = "An unexpected error occurred" /\ ~last.exited
  /\ KeyboardInterrupt \in {last.exc, last.raised} =>
       last.exited /\ last.report = "Goodbye"

\* C15 amended: an exception other than an interrupt that leaves the handling of
\* a menu choice is reported and the session goes on; an interrupt during the
\* handling of a menu choice is reported as a cancelled operation, nothing of the
\* operation is stored and the session goes on; an interrupt at the main menu's
\* prompt ends the program with main's farewell.
C15_InterruptCancelsOrExits ==
  /\ ChoiceRaised /\ last.raised # KeyboardInterrupt =>
       last.report = "An unexpected error occurred" /\ ~last.exited
  /\ ChoiceRaised /\ last.raised = KeyboardInterrupt =>
       last.report = "Operation cancelled..." /\ ~last.exited /\ db = pre
  /\ last.op = "main_menu" /\ last.exc = KeyboardInterrupt =>
       last.exited /\ last.report = "Goodbye" /\ last.raised = ""

\* the confirmation prompt of a change operation was interrupted
C15_InterruptedAtConfirmation ==
  /\ last.op \in ChangeOps
  /\ last.answer = CtrlC
  /\ "confirm" \in Range(last.steps)
  /\ last.raised = KeyboardInterrupt

\* the positions of the steps of the last call that are among names
StepsAt(names) == { i \in DOMAIN last.steps : last.steps[i] \in names }

\* the answer is the letter y or Y with nothing but spaces around it
AnswerIsY(answer) ==
  \E i \in DOMAIN answer :
    /\ answer[i] \in {"y", "Y"}
    /\ \A j \in DOMAIN answer : j # i => answer[j] = " "

\* the cancellation report of each change operation
CancelMessage ==
  [change_route |-> "Route change cancelled", change_times |-> "Time change cancelled.",
   change_status |-> "Status change cancelled.",
   change_captain |-> "Captain change cancelled.",
   change_first_officer |-> "First Officer change cancelled"]

\* C16: in the five change operations every INSERT, UPDATE and DELETE comes after
\* the confirmation was asked, the preview comes before the confirmation, a write
\* and the commit happen only for an answer that is y or Y with spaces around it,
\* and every other answer is followed by rollback and the cancellation report,
\* the store unchanged.
C16_WriteOnlyAfterConfirmation ==
  last.op \in ChangeOps =>
    /\ \A i \in StepsAt({"INSERT", "UPDATE", "DELETE", "commit"}) :
         \E j \in StepsAt({"confirm"}) : j < i
    /\ \A j \in StepsAt({"confirm"}) : \E k \in StepsAt({"preview"}) : k < j
    /\ StepsAt({"INSERT", "UPDATE", "DELETE", "commit"}) # {} => AnswerIsY(last.answer)
    /\ db # pre => AnswerIsY(last.answer) /\ StepsAt({"commit"}) # {}
    /\ StepsAt({"confirm"}) # {} /\ ~AnswerIsY(last.answer) =>
         /\ StepsAt({"rollback"}) # {}
         /\ last.end = "rollback"
         /\ last.msg = CancelMessage[last.op]
         /\ db = pre
    /\ StepsAt({"confirm"}) # {} /\ AnswerIsY(last.answer) =>
         StepsAt({"INSERT", "UPDATE", "DELETE"}) # {}

\* the answer 'yes' at the confirmation of a change was followed by rollback
C16_YesWordCancelled ==
  /\ last.op \in ChangeOps
  /\ last.answer = YesWord
  /\ StepsAt({"confirm"}) # {}
  /\ last.end = "rollback"

\* the three operations that reassign a role of a flight's crew
CrewOps == {"change_captain", "change_first_officer", "assign_captain"}

\* the rows of store st that assign role on flight f
RoleRows(st, f, role) == { c \in CrewOf(st, f) : c.role = role }

\* C17: after change_captain, change_first_officer or assign_captain, each role of
\* each flight is assigned as before the call, or the call committed and the role
\* is assigned to the pilot it names and to nobody else: the old row is never
\* gone without the new one stored; a call that failed leaves the store, and the
\* INSERT after the DELETE does not fail (the pilot and the flight were checked
\* and the DELETE freed the role).
C17_ReassignmentAtomic ==
  last.op \in CrewOps =>
    /\ \A f \in pre.Flight : \A role \in {Captain, FirstOfficer} :
         \/ RoleRows(db, f, role) = RoleRows(pre, f, role)
         \/ /\ RoleRows(db, f, role) = {CrewRow(f.flight_id, last.pilot_id, role)}
            /\ last.end = "commit"
            /\ StepsAt({"DELETE"}) # {} /\ StepsAt({"INSERT"}) # {}
    /\ last.exc # "" \/ last.end # "commit" => db = pre
    /\ StepsAt({"INSERT"}) # {} => last.exc = ""

\* the captain of a flight that had one was replaced by DELETE and INSERT
C17_CaptainReplaced ==
  /\ last.op \in CrewOps
  /\ last.end = "commit"
  /\ \E f \in pre.Flight :
       /\ RoleRows(pre, f, Captain) # {}
       /\ RoleRows(db, f, Captain) # RoleRows(pre, f, Captain)
       /\ RoleRows(db, f, Captain) = {CrewRow(f.flight_id, last.pilot_id, Captain)}

\* the last state change was a call of an operation of queries.py or queries_add.py
OperationCalled == last.op \notin {"none", "main_menu", "submenu"}

\* C18: when an operation returns, whether it committed, was declined, failed
\* validation, failed in the database or was interrupted, the one connection it
\* acquired is closed (closing is its last step) and the transaction it opened
\* has ended; it executes BEGIN at most once, and before any write.
C18_ConnectionClosed ==
  OperationCalled =>
    /\ last.conn \in {"none", "closed"}
    /\ last.conn = "none" <=> last.steps = <<>>
    /\ last.conn = "none" => last.exc = ValidationError /\ last.begin = "none"
    /\ last.conn = "closed" =>
         /\ StepsAt({"connect"}) = {1}
         /\ StepsAt({"close"}) = {Len(last.steps)}
    /\ Cardinality(StepsAt({"BEGIN"})) <= 1
    /\ \A b \in StepsAt({"BEGIN"}) : \A w \in StepsAt({"INSERT", "UPDATE", "DELETE"}) : b < w
    /\ last.begin = "BEGIN" <=> StepsAt({"BEGIN"}) # {}
    /\ last.begin # "none" => last.end \in {"commit", "rollback", "close"}
    /\ \A e \in StepsAt({"commit", "rollback"}) : e < Len(last.steps)

\* the confirmation prompt was interrupted inside the transaction and the
\* connection was closed
C18_InterruptClosesConnection ==
  /\ OperationCalled
  /\ last.raised = KeyboardInterrupt
  /\ last.begin = "BEGIN"
  /\ last.conn = "closed"
  /\ last.end = "close"

\* C19: a call that executed BEGIN ends its transaction by an explicit commit or
\* an explicit rollback before its connection is closed, also when the flight is
\* not found after BEGIN.
C19_ExplicitEndOfTransaction ==
  (OperationCalled /\ StepsAt({"BEGIN"}) # {}) =>
    /\ last.end \in {"commit", "rollback"}
    /\ \E e \in StepsAt({"commit", "rollback"}) :
         \A b \in StepsAt({"BEGIN"}) : b < e /\ e < Len(last.steps)

\* the status names that differ from the text s in the case of letters only
StatusNamed(s) == { n \in { x.status_name : x \in FlightStatus } : lower(n) = lower(s) }

\* the status name store st holds for flight f
StatusOf(st, f) ==
  { x.status_name : x \in { y \in FlightStatus : y.status_id = f.status_id } }

\* C20: change_status with a status typed in any case of letters, a stored flight
\* and a confirmation selects the status identifier before BEGIN and leaves the
\* flight with the status of that name; a text that names none of the five
\* statuses fails validation with no connection, no transaction and no change.
C20_StatusNormalizedAndStored ==
  last.op = "change_status" =>
    /\ StatusNamed(last.a1) = {} =>
         /\ last.exc = ValidationError
         /\ last.msg = "Invalid status"
         /\ last.begin = "none" /\ last.steps = <<>>
         /\ db = pre
    /\ \A b \in StepsAt({"BEGIN"}) : \E s \in StepsAt({"SELECT"}) : s < b
    /\ (StatusNamed(last.a1) # {} /\ Addressed(pre) # {} /\ AnswerIsY(last.answer)) =>
         /\ last.exc = "" /\ last.end = "commit"
         /\ \A f \in Addressed(pre) :
              \E g \in db.Flight : /\ g = [f EXCEPT !.status_id = g.status_id]
                                   /\ StatusOf(db, g) = StatusNamed(last.a1)
         /\ db.Flight \ Addressed(db) = pre.Flight \ Addressed(pre)
         /\ [db EXCEPT !.Flight = {}] = [pre EXCEPT !.Flight = {}]

\* 'DELAYED' was confirmed for a stored flight that was not Delayed
C20_UpperCaseStatusStored ==
  /\ last.op = "change_status"
  /\ last.a1 = <<"D","E","L","A","Y","E","D">>
  /\ AnswerIsY(last.answer)
  /\ \E f \in Addressed(pre) : StatusOf(pre, f) # {Delayed}
  /\ \E f \in Addressed(db) : StatusOf(db, f) = {Delayed}

\* C21: from the same store, assign_captain by the identifier of a stored flight
\* and a confirmed change_captain by that flight's number and date, with the same
\* pilot identifier, end in the same store and both succeed or both fail (the
\* store then unchanged); assign_captain shows no preview and asks no
\* confirmation, change_captain does both before it writes.
C21_AssignEqualsConfirmedChange ==
  /\ last.op = "assign_captain" =>
       /\ StepsAt({"preview", "confirm"}) = {}
       /\ \A f \in pre.Flight : f.flight_id = last.flight_id =>
            LET r == change_captain(pre, f.flight_number, f.flight_date, last.pilot_id, <<"y">>)
            IN  /\ db = r.db
                /\ (last.exc = "") = (r.exc = "")
                /\ last.exc # "" => db = pre
  /\ last.op = "change_captain" /\ AnswerIsY(last.answer) =>
       /\ StepsAt({"INSERT", "DELETE"}) # {} => StepsAt({"preview"}) # {} /\ StepsAt({"confirm"}) # {}
       /\ \A f \in Addressed(pre) :
            LET r == assign_captain(pre, f.flight_id, last.pilot_id)
            IN  /\ db = r.db
                /\ (last.exc = "") = (r.exc = "")
                /\ last.exc # "" => db = pre

\* assign_captain replaced the captain of a flight that had another one
C21_AssignedOverExisting ==
  /\ last.op = "assign_captain"
  /\ last.exc = ""
  /\ \E c \in pre.CrewAssignment :
       c.flight_id = last.flight_id /\ c.role = Captain /\ c.pilot_id # last.pilot_id
  /\ CrewRow(last.flight_id, last.pilot_id, Captain) \in db.CrewAssignment

\* the last call is a confirmed change_route of a stored flight that names, in the
\* right format, an airport that is not stored
UnknownAirportRoute ==
  /\ ConfirmedChangeRoute
  /\ \/ validate_airport_code(last.a1).v \notin pre.Airport
     \/ validate_airport_code(last.a2).v \notin pre.Airport

\* C22: every Route names two stored airports, every Flight a stored Route and a
\* stored FlightStatus, every CrewAssignment a stored Flight and a stored Pilot;
\* a confirmed change_route that names an airport that is not stored adds no
\* Route row and leaves the flight's row, its route reference included.
C22_ReferencesStored ==
  /\ \A r \in db.Route : r.origin_code \in db.Airport /\ r.dest_code \in db.Airport
  /\ \A f \in db.Flight :
       /\ \E r \in db.Route : r.route_id = f.route_id
       /\ \E s \in FlightStatus : s.status_id = f.status_id
  /\ \A c \in db.CrewAssignment :
       /\ \E f \in db.Flight : f.flight_id = c.flight_id
       /\ \E p \in db.Pilot : p.pilot_id = c.pilot_id
  /\ UnknownAirportRoute =>
       /\ db.Route = pre.Route
       /\ \A f \in Addressed(pre) : f \in db.Flight

\* a confirmed change_route to an airport that is not stored executed its INSERT
\* and no Route row was added
C22_UnknownAirportRefused ==
  /\ UnknownAirportRoute
  /\ StepsAt({"INSERT"}) # {}
  /\ StepsAt({"UPDATE"}) = {}
  /\ db.Route = pre.Route

\* the identifiers of the flights the last call addresses
TargetIds == { f.flight_id : f \in Addressed(pre) }

\* the rows of table t of store st that belong to no flight of ids
OtherRows(st, t, ids) == { x \in st[t] : x.flight_id \notin ids }

\* the row of store st with the identifier of flight f
SameFlight(st, f) == { g \in st.Flight : g.flight_id = f.flight_id }

\* C23: a change operation changes only its target.  Airports, pilots and the
\* Flight and CrewAssignment rows of every other flight are as before; of the
\* addressed flight change_times changes only the two timestamps, change_status
\* only status_id, change_route only route_id, adding at most one Route row;
\* change_captain changes only the flight's Captain rows and
\* change_first_officer only its First Officer rows.
C23_OnlyTargetChanged ==
  last.op \in ChangeOps =>
    /\ db.Airport = pre.Airport /\ db.Pilot = pre.Pilot
    /\ \A ids \in {TargetIds} :
         /\ OtherRows(db, "Flight", ids) = OtherRows(pre, "Flight", ids)
         /\ OtherRows(db, "CrewAssignment", ids) = OtherRows(pre, "CrewAssignment", ids)
    /\ Cardinality(db.Flight) = Cardinality(pre.Flight)
    /\ pre.Route \subseteq db.Route
    /\ Cardinality(db.Route \ pre.Route) <= (IF last.op = "change_route" THEN 1 ELSE 0)
    /\ last.op \notin {"change_captain", "change_first_officer"} =>
         db.CrewAssignment = pre.CrewAssignment
    /\ \A f \in Addressed(pre) :
         /\ last.op = "change_times" =>
              \A g \in SameFlight(db, f) :
                g = [f EXCEPT !.sched_dep_utc = g.sched_dep_utc,
                              !.sched_arr_utc = g.sched_arr_utc]
         /\ last.op = "change_status" =>
              \A g \in SameFlight(db, f) : g = [f EXCEPT !.status_id = g.status_id]
         /\ last.op = "change_route" =>
              \A g \in SameFlight(db, f) : g = [f EXCEPT !.route_id = g.route_id]
         /\ last.op \in {"change_captain", "change_first_officer"} => f \in db.Flight
         /\ last.op # "change_captain" => RoleRows(db, f, Captain) = RoleRows(pre, f, Captain)
         /\ last.op # "change_first_officer" =>
              RoleRows(db, f, FirstOfficer) = RoleRows(pre, f, FirstOfficer)

\* a confirmed change_captain replaced the captain of a flight that has a First
\* Officer, who is still assigned
C23_CaptainChangedFirstOfficerKept ==
  /\ last.op = "change_captain"
  /\ last.end = "commit"
  /\ \E f \in Addressed(pre) :
       /\ RoleRows(db, f, Captain) # RoleRows(pre, f, Captain)
       /\ RoleRows(pre, f, FirstOfficer) # {}
       /\ RoleRows(db, f, FirstOfficer) = RoleRows(pre, f, FirstOfficer)

\* C24: no Route row has its origin code equal to its destination code, in every
\* state add_route and change_route reach from the seed.
C24_NoRouteToItself ==
  \A r \in db.Route : r.origin_code # r.dest_code

\* the last call is a change operation that reached its confirmation prompt, and
\* the operator pressed Ctrl-C there
InterruptedAtPrompt ==
  /\ last.op \in ChangeOps
  /\ last.answer = CtrlC
  /\ StepsAt({"confirm"}) # {}

\* C25: a change operation interrupted at its confirmation prompt, its
\* transaction open, commits nothing and executes no write, its connection is
\* closed, the store is as before the call, main_menu prints that the operation
\* was cancelled and the menu is shown again.
C25_InterruptAtPromptCancels ==
  InterruptedAtPrompt =>
    /\ StepsAt({"BEGIN"}) # {} /\ \A b \in StepsAt({"BEGIN"}) : \A c \in StepsAt({"confirm"}) : b < c
    /\ StepsAt({"INSERT", "UPDATE", "DELETE", "commit"}) = {}
    /\ last.end # "commit"
    /\ last.conn = "closed"
    /\ db = pre
    /\ last.raised = KeyboardInterrupt
    /\ last.report = "Operation cancelled..."
    /\ ~last.exited
    /\ ENABLED MainMenu

\* change_route was interrupted at its confirmation prompt after its preview
C25_RouteChangeInterrupted ==
  /\ InterruptedAtPrompt
  /\ last.op = "change_route"
  /\ last.preview.changes # {}
  /\ last.report = "Operation cancelled..."

\* the role change_captain and change_first_officer assign, and what they print
\* on success
CrewChangeRole == [change_captain |-> Captain, change_first_officer |-> FirstOfficer]

CrewChangeDone ==
  [change_captain |-> "Captain reassigned successfully",
   change_first_officer |-> "First Officer changed successfully"]

\* the last call is a confirmed change_captain or change_first_officer
ConfirmedCrewChange ==
  /\ last.op \in DOMAIN CrewChangeRole
  /\ AnswerIsY(last.answer)

\* before the last call the pilot it names held the operation's role on flight f
AlreadyHolds(f) ==
  CrewRow(f.flight_id, last.pilot_id, CrewChangeRole[last.op]) \in pre.CrewAssignment

\* the same operation with the same arguments, from store st
Repeated(st) ==
  IF last.op = "change_captain"
  THEN change_captain(st, last.flight_number, last.flight_date, last.pilot_id, last.answer)
  ELSE change_first_officer(st, last.flight_number, last.flight_date, last.pilot_id,
                            last.answer)

\* C26: a confirmed change_captain or change_first_officer that names the pilot
\* who already holds the role on the flight shows a preview without changed
\* fields, still asks for the confirmation, deletes and inserts the row, commits
\* and reports success, and the CrewAssignment rows (and the store) are those
\* before the call; and after any confirmed change_captain or
\* change_first_officer the same call once more leaves the store as it is.
C26_SameCrewIsNoOp ==
  ConfirmedCrewChange =>
    /\ \A f \in Addressed(pre) : AlreadyHolds(f) =>
         /\ last.preview.changes = {}
         /\ StepsAt({"preview"}) # {} /\ StepsAt({"confirm"}) # {}
         /\ StepsAt({"DELETE"}) # {} /\ StepsAt({"INSERT"}) # {}
         /\ last.exc = ""
         /\ last.msg = CrewChangeDone[last.op]
         /\ last.end = "commit"
         /\ db.CrewAssignment = pre.CrewAssignment
         /\ db = pre
    /\ Repeated(db).db = db
    /\ Repeated(db).exc = last.exc

\* a confirmed change_captain named the captain the flight already had
C26_CaptainReassignedToSelf ==
  /\ ConfirmedCrewChange
  /\ last.op = "change_captain"
  /\ \E f \in Addressed(pre) : AlreadyHolds(f)
  /\ StepsAt({"DELETE"}) # {} /\ StepsAt({"INSERT"}) # {}
  /\ last.end = "commit"

\* a confirmed change_first_officer replaced the first officer, so that the same
\* call once more is the case of a pilot who already holds the role
C26_FirstOfficerReplaced ==
  /\ ConfirmedCrewChange
  /\ last.op = "change_first_officer"
  /\ last.end = "commit"
  /\ db.CrewAssignment # pre.CrewAssignment
  /\ Repeated(db).preview.changes = {}

====
